---- MODULE Spec2Model ----
(***************************************************************************)
(* A model of the acl-js WASM boundary: the decoder arena of               *)
(* src/acl-js/src-js/decoder.js (malloc / queueFree / garbageCollect over  *)
(* the native sbrk heap), the WASMMemory handle, CompressedTracks,         *)
(* DecompressedTracks, the two decompress entry points and                 *)
(* Encoder.compress.                                                       *)
(*                                                                         *)
(* The native heap is a byte array `heap` with a break `top` (sbrk(0)).    *)
(* wasmState.heap is replaced by a new Uint8Array on every memory growth;  *)
(* its identity is the number heapGen, and every view remembers the        *)
(* identity of the heap it was created from.  A native call that can       *)
(* allocate either grows the memory or not: both outcomes are explored.    *)
(***************************************************************************)
EXTENDS Integers, Sequences, FiniteSets, TLC

\* ------------------------------------------------------------------ bounds

\* Size of the modelled linear memory in bytes; calls that would move the
\* break past it are not taken (the arena never reaches the memory limit).
HeapCap == 240

\* Number of WASMMemory objects created in one behaviour.
MaxMems == 3

\* Number of memory growth events in one behaviour.
MaxGrowths == 1

\* Size of the modelled linear memory of the encoder module in bytes.
EncHeapCap == 1200

\* Number of Decoder instances, and of Encoder instances, in one behaviour.
MaxInstances == 3

\* ------------------------------------------------------- program constants

\* decoder.js:75  `segmentHead & 0x15`
AlignMask == 21

\* decoder.js:96  `~15`, the bits of the 32-bit mask that a non-negative
\* 31-bit operand can meet
NotFifteen == 2147483632

\* compressed_tracks.js:164 / decoder.cpp alignof(rtm::qvvf)
QvvSampleSize == 48

\* compressed_tracks.js:179
FloatSampleSize == 4

\* ------------------------------------------------------------- input sets

\* Values of sbrk(0) right after the static initializers ran.
SegmentHeads == {36}

\* Sizes passed to Decoder.malloc by the host.
AllocSizes == {16, 17}

Addr == 0..(HeapCap - 1)

VARIABLES
  initPromise,      \* wasmState.initPromise: 0 = null, else the promise
  instantiations,   \* how many times WebAssembly.instantiate was started
  ready,            \* wasmState.module !== null
  heapInitialSize,  \* wasmState.heapInitialSize
  top,              \* the native break, sbrk(0)
  heapGen,          \* identity of wasmState.heap (0 = null)
  heap,             \* the bytes of the linear memory
  mems,             \* every WASMMemory object created so far, by id
  heapAllocations,  \* wasmState.heapAllocations (ids)
  heapFreeQueue,    \* wasmState.heapFreeQueue (ids)
  ct,               \* the CompressedTracks object
  dt,               \* the DecompressedTracks object
  enc,              \* the encoder module state
  hist,             \* history: what the host asked for (not program state)
  last,             \* the last call and its outcome
  pure              \* the last call of a function without side effects:
                    \* its name, its arguments and what it returned or threw

arenaVars == <<top, heapGen, heap, mems, heapAllocations, heapFreeQueue>>
loadVars  == <<initPromise, instantiations, ready, heapInitialSize>>
vars == <<initPromise, instantiations, ready, heapInitialSize, top, heapGen,
          heap, mems, heapAllocations, heapFreeQueue, ct, dt, enc, hist, last,
          pure>>

\* ------------------------------------------------------------ pure helpers

RECURSIVE BitAnd(_, _)
\* a & b for non-negative operands
BitAnd(a, b) ==
  IF a = 0 \/ b = 0 THEN 0
  ELSE (a % 2) * (b % 2) + 2 * BitAnd(a \div 2, b \div 2)

\* a malloc that passes the requested size to sbrk as it is
PadNone(bufferSize) == bufferSize

\* decoder.js:96  (bufferSize + 15) & ~15
PadTo16(bufferSize) == BitAnd(bufferSize + 15, NotFifteen)

\* decoder.js:75-78  bytes added to the break to align the segment head
AlignmentOverhead(segmentHead) == BitAnd(segmentHead, AlignMask)

Range(s) == {s[i] : i \in 1..Len(s)}

NoView == [gen |-> 0, off |-> 0, len |-> 0]

\* new Uint8Array(wasmState.heap.buffer, off, len) on the heap of identity g
MkView(g, off, len) == [gen |-> g, off |-> off, len |-> len]

\* WASMMemory constructor.  owner is not a field of the object: it records
\* who holds the reference ("host", "ct", "dt" or "tmp").
NewMem(g, off, len, owner) ==
  [off |-> off, len |-> len, owner |-> owner, queued |-> FALSE,
   heapRef |-> g, arr |-> MkView(g, off, len), generation |-> 0]

\* WASMMemory.array, the rebinding part: the handle after the getter ran
\* against the heap of identity g (the getter is only reached when the
\* handle is not queued for free)
Rebound(m, g) ==
  IF m.heapRef # g
    THEN [m EXCEPT !.arr = MkView(g, m.off, m.len), !.heapRef = g,
                   !.generation = m.generation + 1]
    ELSE m

\* the bytes seen through a view
ViewBytes(h, v) == [i \in 0..(v.len - 1) |-> h[v.off + i]]

\* TypedArray.prototype.set(bytes, at) on the whole-heap view: the source is
\* read completely before anything is written
HeapSet(h, bytes, n, at) ==
  [a \in Addr |-> IF a >= at /\ a < at + n THEN bytes[a - at] ELSE h[a]]

\* the pattern the host writes into allocation id
Pattern(id, n) == [i \in 0..(n - 1) |-> ((id * 61) + i) % 256]

\* the outcome of the last call: the error it threw ("" = it returned) and,
\* when it threw, whether a native export had been called before the throw
Last(op, h, err, native) ==
  [err |-> err, native |-> (err # "" /\ native # {})]

\* the compressed buffers the host holds: sample type and the header fields
CtInputs == {[type |-> "qvv", numTracks |-> 2, byteLength |-> 36]}

\* sizes passed to DecompressedTracks.resize by the host
DtSizes == {48}

\* new CompressedTracks(buffer): the object after construction
NewCompressedTracks(k) ==
  [numTracks |-> k.numTracks,
   byteLength |-> k.byteLength,
   sampleSize |-> IF k.type = "qvv" THEN QvvSampleSize ELSE FloatSampleSize,
   outputBufferSize |->
     k.numTracks * (IF k.type = "qvv" THEN QvvSampleSize ELSE FloatSampleSize),
   hasArray |-> TRUE, mem |-> 0, bound |-> FALSE]

\* new DecompressedTracks(decoder): the object after construction.  array is
\* the cached Float32Array, as the bytes it views (NoView = null)
NewDecompressedTracks == [generation |-> 0 - 1, mem |-> 0, array |-> NoView]

\* the DecompressedTracks after resize allocated the handle id
DtAfterResize(id) == [generation |-> 0 - 1, mem |-> id, array |-> NoView]

\* ------------------------------------------------------------------- Init

Init ==
  /\ initPromise = 1
  /\ instantiations = 1
  /\ ready = FALSE
  /\ heapInitialSize = 0
  /\ top = 0
  /\ heapGen = 0
  /\ heap = [a \in Addr |-> 0]
  /\ mems = <<>>
  /\ heapAllocations = <<>>
  /\ heapFreeQueue = <<>>
  /\ ct \in {NewCompressedTracks(k) : k \in CtInputs}
  /\ dt = NewDecompressedTracks
  /\ enc = [initPromise |-> 0, instantiations |-> 0, ready |-> FALSE,
            top |-> 0, heapGen |-> 0]
  /\ hist = [freed |-> {}, staleUse |-> FALSE, binds |-> 0, disposed |-> FALSE,
             decoders |-> 1, encoders |-> 0, sizeSets |-> 0, promises |-> {},
             encPromises |-> {}]
  /\ last = Last("init", 0, "", {})
  /\ pure = [op |-> "none"]

\* ----------------------------------------------------------- construction

\* the .then() callback of WebAssembly.instantiate
Load(segmentHead) ==
  /\ initPromise # 0
  /\ ~ready
  /\ ready' = TRUE
  /\ heapGen' = heapGen + 1
  /\ LET overhead == AlignmentOverhead(segmentHead)
         brk == IF overhead # 0 THEN segmentHead + (16 - overhead) ELSE segmentHead
     IN /\ top' = brk
        /\ heapInitialSize' = brk
  /\ hist' = [hist EXCEPT !.sizeSets = hist.sizeSets + 1]
  /\ last' = Last("load", 0, "", {"sbrk"})
  /\ UNCHANGED <<initPromise, instantiations, heap, mems, heapAllocations,
                 heapFreeQueue, ct, dt, enc, pure>>

\* a constructor that starts a load whether or not one was started before
NewDecoderAlwaysLoads ==
  /\ hist.decoders < MaxInstances
  /\ initPromise' = instantiations + 1
  /\ instantiations' = instantiations + 1
  /\ hist' = [hist EXCEPT !.decoders = hist.decoders + 1]
  /\ last' = Last("newDecoder", 0, "", {})
  /\ UNCHANGED <<ready, heapInitialSize, arenaVars, ct, dt, enc, pure>>

\* new Decoder(), for every instance after the first one (Init is the state
\* after the first construction).  The promise is numbered by the
\* instantiate call that created it.
NewDecoder ==
  /\ hist.decoders < MaxInstances
  /\ IF initPromise = 0
       THEN /\ initPromise' = instantiations + 1
            /\ instantiations' = instantiations + 1
       ELSE UNCHANGED <<initPromise, instantiations>>
  /\ hist' = [hist EXCEPT !.decoders = hist.decoders + 1]
  /\ last' = Last("newDecoder", 0, "", {})
  /\ UNCHANGED <<ready, heapInitialSize, arenaVars, ct, dt, enc, pure>>

\* Decoder.isReady() of instance d: the promise it returns is recorded
IsReady(d) ==
  /\ d \in 1..hist.decoders
  /\ hist' = [hist EXCEPT !.promises = hist.promises \cup {initPromise}]
  /\ last' = Last("isReady", 0, "", {})
  /\ UNCHANGED <<pure, loadVars, arenaVars, ct, dt, enc>>

\* ------------------------------------------------------------------ arena

\* Decoder.malloc(bufferSize) as a state function: the arena after the call
\* and the new handle.  grow: the sbrk call grew the memory.
MallocStep(a, bufferSize, grow, owner) ==
  LET padded == PadTo16(bufferSize)
      off == a.top
      g == IF grow THEN a.heapGen + 1 ELSE a.heapGen
      id == Len(a.mems) + 1
  IN [top |-> a.top + padded, heapGen |-> g,
      mems |-> Append(a.mems, NewMem(g, off, padded, owner)),
      heapAllocations |-> Append(a.heapAllocations, id),
      id |-> id]

Arena == [top |-> top, heapGen |-> heapGen, mems |-> mems,
          heapAllocations |-> heapAllocations]

CanGrow(grow) == grow => heapGen <= MaxGrowths

\* room for an sbrk of n bytes, and for one more handle
CanAlloc(n) == top + PadTo16(n) <= HeapCap /\ Len(mems) < MaxMems

Malloc(bufferSize, grow) ==
  IF ~ready
    THEN /\ ~grow
         /\ last' = Last("malloc", 0, "NotReady", {})
         /\ UNCHANGED <<pure, loadVars, arenaVars, ct, dt, enc, hist>>
    ELSE /\ CanAlloc(bufferSize)
         /\ CanGrow(grow)
         /\ grow => PadTo16(bufferSize) > 0
         /\ LET r == MallocStep(Arena, bufferSize, grow, "host")
            IN /\ top' = r.top
               /\ heapGen' = r.heapGen
               /\ mems' = r.mems
               /\ heapAllocations' = r.heapAllocations
               /\ last' = Last("malloc", r.id, "", {"sbrk"})
         /\ UNCHANGED <<pure, loadVars, heap, heapFreeQueue, ct, dt, enc, hist>>

\* a queueFree that does not look at _isQueuedForFree
QueueFreeUnchecked(h) ==
  /\ h \in 1..Len(mems)
  /\ mems[h].owner = "host"
  /\ mems' = [mems EXCEPT ![h].queued = TRUE]
  /\ heapFreeQueue' = Append(heapFreeQueue, h)
  /\ hist' = [hist EXCEPT !.freed = hist.freed \cup {h}]
  /\ last' = Last("queueFree", h, "", {})
  /\ UNCHANGED <<pure, loadVars, top, heapGen, heap, heapAllocations, ct, dt, enc>>

\* Decoder.queueFree(mem) for a WASMMemory of this heap
QueueFree(h) ==
  /\ h = 0 \/ (h \in 1..Len(mems) /\ mems[h].owner = "host")
  /\ IF ~ready
       THEN /\ last' = Last("queueFree", h, "NotReady", {})
            /\ UNCHANGED <<mems, heapFreeQueue, hist>>
     ELSE IF h = 0
       \* an object that is not a WASMMemory of this heap
       THEN /\ last' = Last("queueFree", h, "Foreign", {})
            /\ UNCHANGED <<mems, heapFreeQueue, hist>>
     ELSE IF mems[h].queued
       THEN /\ last' = Last("queueFree", h, "AlreadyQueued", {})
            /\ UNCHANGED <<mems, heapFreeQueue, hist>>
       ELSE /\ mems' = [mems EXCEPT ![h].queued = TRUE]
            /\ heapFreeQueue' = Append(heapFreeQueue, h)
            /\ hist' = [hist EXCEPT !.freed = hist.freed \cup {h}]
            /\ last' = Last("queueFree", h, "", {})
  /\ UNCHANGED <<pure, loadVars, top, heapGen, heap, heapAllocations, ct, dt, enc>>

\* a forEach body that steps over a queued allocation instead of closing
\* the gap it leaves
GCVisitKeepGaps(st, h, g) ==
  LET m == st.mems[h]
  IN IF m.queued THEN [st EXCEPT !.heapOffset = st.heapOffset + m.len]
     ELSE [st EXCEPT !.heapOffset = st.heapOffset + m.len,
                     !.live = Append(st.live, h)]

\* one iteration of the forEach of garbageCollect (decoder.js:148-165)
\* st = [heap, mems, heapOffset, live]
GCVisit(st, h, g) ==
  LET m == st.mems[h]
  IN IF m.queued THEN st
     ELSE IF m.off # st.heapOffset
       THEN LET r == Rebound(m, g)
                moved == [r EXCEPT !.arr = NoView, !.heapRef = 0,
                                   !.off = st.heapOffset]
            IN [heap |-> HeapSet(st.heap, ViewBytes(st.heap, r.arr), r.len,
                                 st.heapOffset),
                mems |-> [st.mems EXCEPT ![h] = moved],
                heapOffset |-> st.heapOffset + m.len,
                live |-> Append(st.live, h)]
       ELSE [st EXCEPT !.heapOffset = st.heapOffset + m.len,
                       !.live = Append(st.live, h)]

RECURSIVE GCWalk(_, _, _, _)
GCWalk(st, allocs, i, g) ==
  IF i > Len(allocs) THEN st
  ELSE GCWalk(GCVisit(st, allocs[i], g), allocs, i + 1, g)

\* the rebind loop of garbageCollect (decoder.js:174-176)
RebindAll(ms, live, g) ==
  [h \in 1..Len(ms) |-> IF h \in Range(live) THEN Rebound(ms[h], g) ELSE ms[h]]

\* a garbageCollect without the module check
GarbageCollectUnguarded(grow) ==
  /\ ~grow
  /\ heapFreeQueue = <<>>
  /\ last' = Last("garbageCollect", 0, "", {})
  /\ UNCHANGED <<pure, loadVars, arenaVars, ct, dt, enc, hist>>

\* Decoder.garbageCollect()
GarbageCollect(grow) ==
  /\ IF ~ready
       THEN /\ ~grow
            /\ last' = Last("garbageCollect", 0, "NotReady", {})
            /\ UNCHANGED <<arenaVars>>
     ELSE IF heapFreeQueue = <<>>
       THEN /\ ~grow
            /\ last' = Last("garbageCollect", 0, "", {})
            /\ UNCHANGED <<arenaVars>>
       ELSE LET st == GCWalk([heap |-> heap, mems |-> mems,
                              heapOffset |-> heapInitialSize, live |-> <<>>],
                             heapAllocations, 1, heapGen)
                g == IF grow THEN heapGen + 1 ELSE heapGen
            IN /\ grow => (st.heapOffset > top /\ heapGen <= MaxGrowths)
               /\ st.heapOffset <= HeapCap
               /\ top' = st.heapOffset
               /\ heapGen' = g
               /\ heap' = st.heap
               /\ heapAllocations' = st.live
               /\ heapFreeQueue' = <<>>
               /\ mems' = RebindAll(st.mems, st.live, g)
               /\ last' = Last("garbageCollect", 0, "", {"sbrk"})
  /\ UNCHANGED <<pure, loadVars, ct, dt, enc, hist>>

\* an array getter without the _isQueuedForFree check
ResolveArrayUnchecked(h) ==
  /\ h \in 1..Len(mems)
  /\ mems[h].owner = "host"
  /\ mems' = [mems EXCEPT ![h] = Rebound(mems[h], heapGen)]
  /\ last' = Last("array", h, "", {})
  /\ UNCHANGED <<pure, loadVars, top, heapGen, heap, heapAllocations, heapFreeQueue,
                 ct, dt, enc, hist>>

\* the host reads mem.array
ResolveArray(h) ==
  /\ h \in 1..Len(mems)
  /\ mems[h].owner = "host"
  /\ IF mems[h].queued
       THEN /\ last' = Last("array", h, "Freed", {})
            /\ UNCHANGED mems
       ELSE /\ mems' = [mems EXCEPT ![h] = Rebound(mems[h], heapGen)]
            /\ last' = Last("array", h, "", {})
  /\ UNCHANGED <<pure, loadVars, top, heapGen, heap, heapAllocations, heapFreeQueue,
                 ct, dt, enc, hist>>

\* the host fills an allocation: mem.array.set(bytes)
WriteMem(h) ==
  /\ h \in 1..Len(mems)
  /\ mems[h].owner = "host"
  /\ ~mems[h].queued
  /\ mems[h].len > 0
  /\ LET m == Rebound(mems[h], heapGen)
     IN /\ mems' = [mems EXCEPT ![h] = m]
        /\ heap' = HeapSet(heap, Pattern(h, m.len), m.len, m.arr.off)
  /\ last' = Last("write", h, "", {})
  /\ UNCHANGED <<pure, loadVars, top, heapGen, heapAllocations, heapFreeQueue,
                 ct, dt, enc, hist>>

\* ------------------------------------------------------- CompressedTracks

\* the bytes of the buffer the CompressedTracks was constructed from
CtByte(i) == (7 * i + 3) % 256
CtBytes(n) == [i \in 0..(n - 1) |-> CtByte(i)]

\* a view is stale when the heap it was created from is no longer the
\* current one (its ArrayBuffer was detached by the growth)
Stale(v, g) == v.gen # g

\* CompressedTracks.bind(decoder)
Bind(isDecoder, grow) ==
  /\ CanGrow(grow)
  /\ IF ~isDecoder
       THEN /\ ~grow
            /\ last' = Last("bind", 0, "Rejected", {})
            /\ UNCHANGED <<arenaVars, ct, hist>>
     ELSE IF ct.bound
       THEN /\ ~grow
            /\ last' = Last("bind", 0, "AlreadyBound", {})
            /\ UNCHANGED <<arenaVars, ct, hist>>
     ELSE IF ~ct.hasArray
       \* this.byteLength reads this._mem.byteLength with _mem null
       THEN /\ ~grow
            /\ last' = Last("bind", 0, "NullDeref", {})
            /\ UNCHANGED <<arenaVars, ct, hist>>
     ELSE IF ~ready
       THEN /\ ~grow
            /\ last' = Last("bind", 0, "NotReady", {})
            /\ UNCHANGED <<arenaVars, ct, hist>>
     ELSE /\ CanAlloc(ct.byteLength)
          /\ LET r == MallocStep(Arena, ct.byteLength, grow, "ct")
                 v == r.mems[r.id].arr
             IN /\ top' = r.top
                /\ heapGen' = r.heapGen
                /\ mems' = r.mems
                /\ heapAllocations' = r.heapAllocations
                /\ heap' = HeapSet(heap, CtBytes(ct.byteLength), ct.byteLength, v.off)
                /\ ct' = [ct EXCEPT !.mem = r.id, !.hasArray = FALSE, !.bound = TRUE]
                /\ hist' = [hist EXCEPT !.binds = hist.binds + 1,
                                        !.staleUse = hist.staleUse \/ Stale(v, r.heapGen)]
                /\ last' = Last("bind", r.id, "", {"sbrk"})
          /\ UNCHANGED heapFreeQueue
  /\ UNCHANGED <<pure, loadVars, dt, enc>>

\* a dispose that keeps the host buffer (_array) of the CompressedTracks
DisposeKeepsArray ==
  /\ IF ct.mem # 0
       THEN /\ mems' = [mems EXCEPT ![ct.mem].queued = TRUE]
            /\ heapFreeQueue' = Append(heapFreeQueue, ct.mem)
            /\ hist' = [hist EXCEPT !.freed = hist.freed \cup {ct.mem},
                                    !.disposed = TRUE]
       ELSE /\ hist' = [hist EXCEPT !.disposed = TRUE]
            /\ UNCHANGED <<mems, heapFreeQueue>>
  /\ ct' = [ct EXCEPT !.mem = 0, !.bound = FALSE]
  /\ last' = Last("dispose", ct.mem, "", {})
  /\ UNCHANGED <<pure, loadVars, top, heapGen, heap, heapAllocations, dt, enc>>

\* CompressedTracks.dispose()
Dispose ==
  /\ IF ct.mem # 0
       THEN /\ mems' = [mems EXCEPT ![ct.mem].queued = TRUE]
            /\ heapFreeQueue' = Append(heapFreeQueue, ct.mem)
            /\ hist' = [hist EXCEPT !.freed = hist.freed \cup {ct.mem},
                                    !.disposed = TRUE]
       ELSE /\ hist' = [hist EXCEPT !.disposed = TRUE]
            /\ UNCHANGED <<mems, heapFreeQueue>>
  /\ ct' = [ct EXCEPT !.mem = 0, !.hasArray = FALSE, !.bound = FALSE]
  /\ last' = Last("dispose", ct.mem, "", {})
  /\ UNCHANGED <<pure, loadVars, top, heapGen, heap, heapAllocations, dt, enc>>

\* CompressedTracks.byteLength: of the host buffer while there is one, of
\* the handle after bind
CtByteLength == IF ct.hasArray THEN ct.byteLength ELSE mems[ct.mem].len

\* CompressedTracks.array, as the bytes it holds
CtArray ==
  IF ct.hasArray THEN CtBytes(ct.byteLength)
  ELSE ViewBytes(heap, MkView(heapGen, mems[ct.mem].off, mems[ct.mem].len))

\* compressedTracksSize of decoder.js:215 and 283: the size passed to
\* decompress_tracks and decompress_track
CompressedTracksSize == mems[ct.mem].len

\* ----------------------------------------------------- DecompressedTracks

\* DecompressedTracks.byteLength
DtByteLength == IF dt.mem = 0 THEN 0 ELSE mems[dt.mem].len

\* DecompressedTracks.resize(byteLength).  The Decoder of decoder.js has no
\* method `free`: releasing the previous allocation throws a TypeError.
DtResize(byteLength, grow) ==
  /\ CanGrow(grow)
  /\ IF byteLength = DtByteLength
       THEN /\ ~grow
            /\ last' = Last("resize", 0, "", {})
            /\ UNCHANGED <<arenaVars, dt>>
     ELSE IF dt.mem # 0
       THEN /\ ~grow
            /\ last' = Last("resize", 0, "NoFree", {})
            /\ UNCHANGED <<arenaVars, dt>>
     ELSE IF ~ready
       THEN /\ ~grow
            /\ last' = Last("resize", 0, "NotReady", {})
            /\ UNCHANGED <<arenaVars, dt>>
     ELSE /\ CanAlloc(byteLength)
          /\ LET r == MallocStep(Arena, byteLength, grow, "dt")
             IN /\ top' = r.top
                /\ heapGen' = r.heapGen
                /\ mems' = r.mems
                /\ heapAllocations' = r.heapAllocations
                /\ dt' = DtAfterResize(r.id)
                /\ last' = Last("resize", r.id, "", {"sbrk"})
          /\ UNCHANGED <<heap, heapFreeQueue>>
  /\ UNCHANGED <<pure, loadVars, ct, enc, hist>>

\* DecompressedTracks.dispose()
DtDispose ==
  /\ IF dt.mem # 0
       THEN last' = Last("dtDispose", 0, "NoFree", {})
       ELSE last' = Last("dtDispose", 0, "", {})
  /\ UNCHANGED <<pure, loadVars, arenaVars, ct, dt, enc, hist>>

\* DecompressedTracks.array: the cached Float32Array is recreated only when
\* the cached generation differs from the generation of the handle, which
\* is read before the handle is resolved
DtArray ==
  /\ IF dt.mem = 0
       THEN /\ last' = Last("dtArray", 0, "", {})
            /\ UNCHANGED <<mems, dt>>
     ELSE IF dt.generation = mems[dt.mem].generation
       THEN /\ last' = Last("dtArray", dt.mem, "", {})
            /\ UNCHANGED <<mems, dt>>
     ELSE IF mems[dt.mem].queued
       THEN /\ last' = Last("dtArray", dt.mem, "Freed", {})
            /\ UNCHANGED <<mems, dt>>
     ELSE LET m == Rebound(mems[dt.mem], heapGen)
          IN /\ mems' = [mems EXCEPT ![dt.mem] = m]
             /\ dt' = [dt EXCEPT !.array = m.arr, !.generation = m.generation]
             /\ last' = Last("dtArray", dt.mem, "", {})
  /\ UNCHANGED <<pure, loadVars, top, heapGen, heap, heapAllocations, heapFreeQueue,
                 ct, enc, hist>>

\* ------------------------------------------------------ native decoder

\* alignof(rtm::qvvf) and alignof(float) (decoder.cpp:137, 166)
OutputAlign(c) == IF c.sampleSize = QvvSampleSize THEN 16 ELSE FloatSampleSize

\* decompress_tracks of decoder.cpp: its return code.  valid: the bytes at
\* compressed_buffer are a well-formed stream that the context accepts.
NativeDecompressTracks(valid, outputBuffer, outputBufferSize, c) ==
  IF ~valid THEN 0 - 2
  ELSE IF outputBufferSize < c.numTracks * c.sampleSize THEN 0 - 3
  ELSE IF outputBuffer % OutputAlign(c) # 0 THEN 0 - 4
  ELSE 0

\* decompress_track of decoder.cpp: its return code
NativeDecompressTrack(valid, outputBuffer, outputBufferSize, trackIndex, c) ==
  IF ~valid THEN 0 - 2
  ELSE IF outputBufferSize < c.sampleSize THEN 0 - 3
  ELSE IF outputBuffer % OutputAlign(c) # 0 THEN 0 - 4
  ELSE IF trackIndex >= c.numTracks THEN 0 - 5
  ELSE 0

\* byte k of the decompressed pose (what the track writers store)
DecodedByte(k) == 128 + (k % 64)
Decoded(from, n) == [i \in 0..(n - 1) |-> DecodedByte(from + i)]

\* ------------------------------------------------------ decompressTracks

\* the outcome of a call: the arena after it, the DecompressedTracks, the
\* error thrown ("" = returned), the native exports called, and whether a
\* stale view was used.  fits: the call stays inside the modelled memory.
Outcome(a, d, hp, err, native, stale, fits) ==
  [top |-> a.top, heapGen |-> a.heapGen, heap |-> hp,
   mems |-> a.mems, heapAllocations |-> a.heapAllocations, dt |-> d, err |-> err,
   native |-> native, stale |-> stale, fits |-> fits]

\* the argument checks of decoder.js:184-198
TracksArgsRejected(arg) ==
  \/ arg = "notCT"
  \/ ~ct.bound
  \/ arg = "badTime"
  \/ arg = "badPolicy"

\* Decoder.decompressTracks(compressedTracks, sampleTime, roundingPolicy,
\* decompressedTracks).  arg: which argument, if any, is wrong; out: "dt",
\* "null" or "other"; growAt: the native call during which the memory grows.
DecompressTracksOutcome(arg, out, valid, growAt) ==
  LET a0 == Arena
      sbrkSet == {"sbrk"}
  IN
  IF ~ready THEN Outcome(a0, dt, heap, "NotReady", {}, FALSE, TRUE)
  ELSE IF TracksArgsRejected(arg) \/ out = "other"
    THEN Outcome(a0, dt, heap, "Rejected", {}, FALSE, TRUE)
  ELSE
    LET d0 == IF out = "dt" THEN dt ELSE NewDecompressedTracks
        len0 == IF d0.mem = 0 THEN 0 ELSE mems[d0.mem].len
        need == len0 < ct.outputBufferSize
    IN
    IF need /\ d0.mem # 0
      THEN Outcome(a0, dt, heap, "NoFree", {}, FALSE, TRUE)
    ELSE IF need /\ ~CanAlloc(ct.outputBufferSize)
      THEN Outcome(a0, dt, heap, "", {}, FALSE, FALSE)
    ELSE
      LET r == IF need
                 THEN MallocStep(a0, ct.outputBufferSize, growAt = "resize",
                                 IF out = "dt" THEN "dt" ELSE "tmp")
                 ELSE a0 @@ [id |-> d0.mem]
          d1 == IF out = "dt" /\ need THEN DtAfterResize(r.id) ELSE dt
          outputBuffer == r.mems[r.id].off
          code == NativeDecompressTracks(valid, outputBuffer,
                                         ct.outputBufferSize, ct)
          a2 == [r EXCEPT !.heapGen = IF growAt = "native" THEN @ + 1 ELSE @]
          called == (IF need THEN sbrkSet ELSE {}) \cup {"decompress_tracks"}
      IN IF code # 0
           THEN Outcome(a2, d1, heap, "Native", called, FALSE, TRUE)
           ELSE Outcome(a2, d1,
                        HeapSet(heap, Decoded(0, ct.outputBufferSize),
                                ct.outputBufferSize, outputBuffer),
                        "", called, FALSE, TRUE)

Apply(op, o) ==
  /\ o.fits
  /\ top' = o.top
  /\ heapGen' = o.heapGen
  /\ mems' = o.mems
  /\ heapAllocations' = o.heapAllocations
  /\ heap' = o.heap
  /\ dt' = o.dt
  /\ hist' = [hist EXCEPT !.staleUse = hist.staleUse \/ o.stale]
  /\ last' = Last(op, 0, o.err, o.native)
  /\ UNCHANGED <<pure, loadVars, heapFreeQueue, ct, enc>>

GrowPoint(growAt, o) ==
  /\ growAt # "none" => heapGen <= MaxGrowths
  /\ (growAt = "none") = (o.heapGen = heapGen)

DecompressTracks(arg, out, valid, growAt) ==
  LET o == DecompressTracksOutcome(arg, out, valid, growAt)
  IN GrowPoint(growAt, o) /\ Apply("decompressTracks", o)

\* ------------------------------------------------------- decompressTrack

\* decoder.js:233-251.  `this._numTracks` is not a property of Decoder, so
\* `trackIndex >= undefined` is false for every number.
TrackArgsRejected(arg, tiInt, ti) ==
  \/ arg = "notCT"
  \/ ~ct.bound
  \/ ~tiInt
  \/ ti < 0
  \/ arg = "badTime"
  \/ arg = "badPolicy"

\* Decoder.decompressTrack(compressedTracks, trackIndex, sampleTime,
\* roundingPolicy, decompressedTracks).  out: "dt", "u8" (a Uint8Array of
\* outLen bytes), "f32" (a Float32Array over outLen bytes), "null" or "other".
DecompressTrackOutcome(arg, tiInt, ti, out, outLen, valid, growAt) ==
  LET a0 == Arena
      sampleSize == ct.sampleSize
  IN
  IF ~ready THEN Outcome(a0, dt, heap, "NotReady", {}, FALSE, TRUE)
  ELSE IF TrackArgsRejected(arg, tiInt, ti)
    THEN Outcome(a0, dt, heap, "Rejected", {}, FALSE, TRUE)
  ELSE IF top + sampleSize > HeapCap
    THEN Outcome(a0, dt, heap, "", {}, FALSE, FALSE)
  ELSE
    LET outputBuffer == top
        a1 == [a0 EXCEPT !.top = top + sampleSize,
                         !.heapGen = IF growAt = "sbrk" THEN @ + 1 ELSE @]
        need == out = "dt" /\ DtByteLength < ct.outputBufferSize
    IN
    IF out \in {"null", "other"}
      THEN Outcome(a1, dt, heap, "Rejected", {"sbrk"}, FALSE, TRUE)
    ELSE IF need /\ dt.mem # 0
      THEN Outcome(a1, dt, heap, "NoFree", {"sbrk"}, FALSE, TRUE)
    ELSE IF need /\ ~(a1.top + PadTo16(ct.outputBufferSize) <= HeapCap
                      /\ Len(mems) < MaxMems)
      THEN Outcome(a0, dt, heap, "", {}, FALSE, FALSE)
    ELSE
      LET r == IF need
                 THEN MallocStep(a1, ct.outputBufferSize, growAt = "resize", "dt")
                 ELSE a1 @@ [id |-> dt.mem]
          d1 == IF out = "dt" /\ need THEN DtAfterResize(r.id) ELSE dt
          \* resultBufferU8 = decompressedTracks._mem.array
          ms == IF out = "dt"
                  THEN [r.mems EXCEPT ![r.id] = Rebound(@, r.heapGen)]
                  ELSE r.mems
          view == IF out = "dt" THEN ms[r.id].arr ELSE NoView
          resultLen == IF out = "dt" THEN view.len ELSE outLen
          resultBufferOffset == IF out = "dt" THEN ti * sampleSize ELSE 0
          a2 == [r EXCEPT !.mems = ms]
      IN
      IF resultBufferOffset + sampleSize > resultLen
        THEN Outcome(a2, d1, heap, "Rejected", {"sbrk"}, FALSE, TRUE)
      ELSE
        LET code == NativeDecompressTrack(valid, outputBuffer, sampleSize, ti, ct)
            a3 == [a2 EXCEPT !.heapGen = IF growAt = "native" THEN @ + 1 ELSE @]
            called == {"sbrk", "decompress_track"}
            rolled == [a3 EXCEPT !.top = outputBuffer]
            written == HeapSet(heap, Decoded(ti * sampleSize, sampleSize),
                               sampleSize, outputBuffer)
        IN
        IF code # 0
          THEN Outcome(rolled, d1, heap, "Native", called, FALSE, TRUE)
        ELSE IF out # "dt"
          THEN Outcome(rolled, d1, written, "", called, FALSE, TRUE)
        ELSE IF Stale(view, a3.heapGen)
          \* resultBufferU8 is a view of the detached buffer: set() throws
          THEN Outcome(a3, d1, written, "Detached", called, TRUE, TRUE)
        ELSE Outcome(rolled, d1,
                     HeapSet(written,
                             ViewBytes(written, MkView(a3.heapGen, outputBuffer,
                                                       sampleSize)),
                             sampleSize, view.off + resultBufferOffset),
                     "", called, FALSE, TRUE)

DecompressTrack(arg, tiInt, ti, out, outLen, valid, growAt) ==
  LET o == DecompressTrackOutcome(arg, tiInt, ti, out, outLen, valid, growAt)
  IN GrowPoint(growAt, o) /\ Apply("decompressTrack", o)

\* the calls of decompressTracks the host makes: at most one wrong argument
TracksCalls ==
  {<<a, "dt">> : a \in {"ok", "notCT", "badTime", "badPolicy"}}
    \cup {<<"ok", o>> : o \in {"null", "other"}}

\* track indices tried with a DecompressedTracks: the last track, and the
\* first index past the tracks (and past the output buffer)
TrackIndices == {1, 2}

\* the calls of decompressTrack the host makes
TrackCalls ==
  {[arg |-> a, out |-> "dt", tiInt |-> TRUE, ti |-> 0, outLen |-> 0] :
      a \in {"notCT", "badTime", "badPolicy"}}
    \cup {[arg |-> "ok", out |-> "dt", tiInt |-> FALSE, ti |-> 0, outLen |-> 0],
          [arg |-> "ok", out |-> "dt", tiInt |-> TRUE, ti |-> 0 - 1, outLen |-> 0]}
    \cup {[arg |-> "ok", out |-> "dt", tiInt |-> TRUE, ti |-> t, outLen |-> 0] :
            t \in TrackIndices}
    \cup {[arg |-> "ok", out |-> o, tiInt |-> TRUE, ti |-> 0, outLen |-> 0] :
            o \in {"null", "other"}}
    \cup {[arg |-> "ok", out |-> o, tiInt |-> TRUE, ti |-> 0, outLen |-> n] :
            o \in {"u8", "f32"}, n \in {ct.sampleSize - 4, ct.sampleSize}}
    \cup {[arg |-> "ok", out |-> "u8", tiInt |-> TRUE, ti |-> ct.numTracks,
           outLen |-> ct.sampleSize]}

GrowPoints == {"none", "sbrk", "resize", "native"}

\* ---------------------------------------------------------------- Encoder

\* values of sbrk(0) of the encoder module after _start()
EncSegmentHeads == {64}

\* bytes by which the allocator of the native compress moves the break
NativeAllocs == {0, 96}

\* sizeof(double)
DoubleSize == 8

\* TrackArray.getMetadataSize / Track.getMetadataSize, in doubles
GetMetadataSize(numTracks, sampleType) ==
  (IF sampleType = "qvv" THEN 7 ELSE 2) * numTracks + 4

\* getNumFloatsPerSample of sample_type.js
GetNumFloatsPerSample(sampleType) == IF sampleType = "qvv" THEN 4 + 3 + 3 ELSE 1

\* the arguments passed to Encoder.compress: kind is "null", "other" (not a
\* TrackArray), "invalid" (isValid() is false) or "valid"
EncTracks ==
  {[numTracks |-> 0, sampleType |-> "qvv", kind |-> "null", numSamples |-> 0],
   [numTracks |-> 0, sampleType |-> "qvv", kind |-> "other", numSamples |-> 0],
   [numTracks |-> 1, sampleType |-> "qvv", kind |-> "invalid", numSamples |-> 1]}
  \cup {[numTracks |-> n, sampleType |-> t, kind |-> "valid", numSamples |-> 1] :
          t \in {"qvv", "float"}, n \in {0, 1}}

\* compress of acl.cpp: an error code (0..3) or the address of the
\* compressed clip.  ok: compress_clip reported no error; clip: the address
\* the allocator returned for the compressed clip.
NativeCompress(tracks, metadataSize, rawDataSize, ok, clip) ==
  IF tracks.sampleType # "qvv" THEN 0
  ELSE IF DoubleSize * 4 + (7 * DoubleSize) * tracks.numTracks # metadataSize THEN 1
  ELSE IF DoubleSize * 10 * tracks.numSamples * tracks.numTracks # rawDataSize THEN 2
  ELSE IF ~ok THEN 3
  ELSE clip

\* new Encoder()
NewEncoder ==
  /\ hist.encoders < MaxInstances
  /\ IF enc.initPromise = 0
       THEN enc' = [enc EXCEPT !.initPromise = enc.instantiations + 1,
                               !.instantiations = enc.instantiations + 1]
       ELSE UNCHANGED enc
  /\ hist' = [hist EXCEPT !.encoders = hist.encoders + 1]
  /\ last' = Last("newEncoder", 0, "", {})
  /\ UNCHANGED <<pure, loadVars, arenaVars, ct, dt>>

\* Encoder.isReady() of instance e
EncIsReady(e) ==
  /\ e \in 1..hist.encoders
  /\ hist' = [hist EXCEPT !.encPromises = hist.encPromises \cup {enc.initPromise}]
  /\ last' = Last("encIsReady", 0, "", {})
  /\ UNCHANGED <<pure, loadVars, arenaVars, ct, dt, enc>>

\* the .then() callback of the Encoder constructor
EncLoad(segmentHead) ==
  /\ enc.initPromise # 0
  /\ ~enc.ready
  /\ enc' = [enc EXCEPT !.ready = TRUE, !.top = segmentHead, !.heapGen = 1]
  /\ last' = Last("encLoad", 0, "", {"_start"})
  /\ UNCHANGED <<pure, loadVars, arenaVars, ct, dt, hist>>

\* Encoder.compress(tracks).  alloc: the bytes the native allocator takes
\* from the break during compress; grow: the memory grows during the call.
Compress(tracks, ok, alloc, grow) ==
  /\ IF ~enc.ready
       THEN /\ ~grow /\ ok /\ alloc = 0
            /\ last' = Last("compress", 0, "NotReady", {})
            /\ UNCHANGED enc
     ELSE IF tracks.kind # "valid"
       THEN /\ ~grow /\ ok /\ alloc = 0
            /\ last' = Last("compress", 0, "Rejected", {})
            /\ UNCHANGED enc
     ELSE
       LET metadataBufferSize ==
             DoubleSize * GetMetadataSize(tracks.numTracks, tracks.sampleType)
           metadataBuffer == enc.top
           rawDataBufferSize ==
             DoubleSize * GetNumFloatsPerSample(tracks.sampleType)
               * tracks.numSamples * tracks.numTracks
           rawDataBuffer == metadataBuffer + metadataBufferSize
           clip == rawDataBuffer + rawDataBufferSize
           brk == clip + alloc
           result == NativeCompress(tracks, metadataBufferSize,
                                    rawDataBufferSize, ok, clip)
           g == IF grow THEN enc.heapGen + 1 ELSE enc.heapGen
       IN /\ brk <= EncHeapCap
          /\ grow => enc.heapGen <= MaxGrowths
          /\ (result >= metadataBuffer) => alloc > 0
          /\ IF result < metadataBuffer
               THEN /\ enc' = [enc EXCEPT !.top = brk, !.heapGen = g]
                    /\ last' = Last("compress", 0, "Native", {"sbrk", "compress"})
               ELSE /\ enc' = [enc EXCEPT !.top = metadataBuffer, !.heapGen = g]
                    /\ last' = Last("compress", 0, "", {"sbrk", "compress"})
  /\ UNCHANGED <<pure, loadVars, arenaVars, ct, dt, hist>>

\* ------------------------------------------ calls without side effects

\* a call of a constructor or function that touches no module state: the
\* call and its result are recorded, everything else stays
PureCall(op, in, out) ==
  /\ pure' = [op |-> op, out |-> out, in |-> in]
  /\ UNCHANGED <<loadVars, arenaVars, ct, dt, enc, hist, last>>

\* what a throwing call yields
Thrown(err) == [err |-> err, ok |-> FALSE]

\* ------------------------------------------- CompressedTracks constructor

\* A 32-bit word is kept as its two 16-bit halves: w & 0xFFFF is w.lo and
\* w >> 16 is w.hi.
Word(hi, lo) == [hi |-> hi, lo |-> lo]

\* compressed_tracks.js:150  0xac10ac10
QvvTag == Word(44048, 44048)

\* compressed_tracks.js:167  0xac11ac11
FloatTag == Word(44049, 44049)

\* the numeric value of a word
WordValue(w) == w.hi * 65536 + w.lo

\* number of 32-bit words of the longest header the constructor reads
HeaderWords == 9

\* a header of HeaderWords words: tag in word 2 (counting from 0), the track
\* count word in word 4, zero elsewhere
HeaderOf(tag, w4) ==
  [i \in 1..HeaderWords |->
     IF i = 3 THEN tag ELSE IF i = 5 THEN w4 ELSE Word(0, 0)]

\* tags found in a buffer
Tags == {QvvTag, FloatTag, Word(44048, 44049)}

\* track count words found in a buffer
CountWords == {Word(hi, lo) : hi \in 0..2, lo \in 0..3}

\* what precedes a Uint8Array inside its ArrayBuffer: nothing (byteOffset
\* 0), zero bytes, or another stream
Prefixes ==
  {<<>>, [i \in 1..HeaderWords |-> Word(0, 0)], HeaderOf(FloatTag, Word(0, 1))}

\* the arguments passed to new CompressedTracks: kind "null", "other",
\* "ArrayBuffer" or "Uint8Array"; backing is the ArrayBuffer in words, off
\* the byteOffset of the view in words, len its length in words
CtBuffers ==
  {[off |-> 0, len |-> 0, kind |-> k, backing |-> <<>>] : k \in {"null", "other"}}
  \cup {[off |-> 0, len |-> HeaderWords, kind |-> "ArrayBuffer",
         backing |-> HeaderOf(t, w)] : t \in Tags, w \in CountWords}
  \cup {[off |-> Len(p), len |-> HeaderWords, kind |-> "Uint8Array",
         backing |-> p \o HeaderOf(t, w)] : p \in Prefixes, t \in Tags, w \in CountWords}
  \cup {[off |-> 0, len |-> n, kind |-> "ArrayBuffer",
         backing |-> SubSeq(HeaderOf(t, Word(0, 1)), 1, n)] :
          t \in Tags, n \in {2, 3, 8}}

\* word i (from 0) of the bytes the argument denotes
BufferWord(b, i) == b.backing[b.off + i + 1]

\* new Uint32Array(this._array.buffer, 0, n)[i]: word i (from 0) of the
\* ArrayBuffer behind the array
BackingWord(b, i) == b.backing[i + 1]

\* new CompressedTracks(buffer): the fields of the object, or the error
ConstructCompressedTracks(b) ==
  IF b.kind \notin {"ArrayBuffer", "Uint8Array"} THEN Thrown("TypeError")
  ELSE IF Len(b.backing) < 3 THEN Thrown("RangeError")
  ELSE IF BackingWord(b, 2) = QvvTag
    THEN IF Len(b.backing) < 4 + 5 THEN Thrown("RangeError")
         ELSE [numTracks |-> BackingWord(b, 4).lo, sampleSize |-> 12 * 4,
               outputBufferSize |-> BackingWord(b, 4).lo * 12 * 4,
               sampleType |-> "qvv",
               ok |-> TRUE,
               numSegments |-> BackingWord(b, 4).hi]
  ELSE IF BackingWord(b, 2) = FloatTag
    THEN IF Len(b.backing) < 2 + 6 THEN Thrown("RangeError")
         ELSE [numTracks |-> WordValue(BackingWord(b, 4)), sampleSize |-> 4,
               outputBufferSize |-> WordValue(BackingWord(b, 4)) * 4,
               sampleType |-> "float",
               ok |-> TRUE,
               numSegments |-> 0]
  ELSE Thrown("Unrecognized")

\* the host constructs a CompressedTracks
NewCT(b) == PureCall("CompressedTracks", b, ConstructCompressedTracks(b))

\* ------------------------------------------------- TrackArray constructor

\* part_006:54  1 << 24
MaxCount == 16777216

\* part_006:70  10000.0, in thousandths
RateLimitMilli == 10000000

\* A count argument: int is Number.isInteger(x); v is its value when it is
\* an integer.
Count(int, v) == [v |-> v, int |-> int]

\* A sample rate argument: finite is Number.isFinite(x); milli is its value
\* in thousandths when it is finite.
Rate(finite, milli) == [finite |-> finite, milli |-> milli]

\* isSampleType of sample_type.js
IsSampleType(sampleType) == sampleType \in {"qvv", "float"}

\* Track.getMetadataSize(sampleType), in doubles
TrackMetadataSize(sampleType) == IF sampleType = "qvv" THEN 7 ELSE 2

\* ConstructTrack with consecutive samples one slot apart
ConstructTrackOverlapping(sampleType, numSamples, rawLen, rawDataOffset, metaLen, metadataOffset) ==
  LET sampleOff(i) == rawDataOffset + (i - 1)
  IN IF rawDataOffset < 0 \/ rawDataOffset >= rawLen THEN Thrown("RangeError")
     ELSE IF metadataOffset < 0 \/ metadataOffset >= metaLen THEN Thrown("RangeError")
     ELSE IF metadataOffset + TrackMetadataSize(sampleType) > metaLen
       THEN Thrown("RangeError")
     ELSE IF \E i \in 1..numSamples : sampleOff(i) > rawLen THEN Thrown("RangeError")
     ELSE [ok |-> TRUE, rawDataOffset |-> rawDataOffset,
           metadataOffset |-> metadataOffset,
           samples |-> [i \in 1..numSamples |-> sampleOff(i)]]

\* new Track(sampleType, numSamples, sampleRate, rawData, rawDataOffset,
\* metadata, metadataOffset) after its checks of type, count and rate, which
\* repeat those of TrackArray: the offsets of the track, of its description
\* and of its samples, or the error.  rawLen and metaLen are the lengths of
\* the two Float64Arrays.
ConstructTrack(sampleType, numSamples, rawLen, rawDataOffset, metaLen, metadataOffset) ==
  LET numFloatsPerSample == GetNumFloatsPerSample(sampleType)
      sampleOff(i) == rawDataOffset + (i - 1) * numFloatsPerSample
  IN IF rawDataOffset < 0 \/ rawDataOffset >= rawLen THEN Thrown("RangeError")
     ELSE IF metadataOffset < 0 \/ metadataOffset >= metaLen THEN Thrown("RangeError")
     ELSE IF metadataOffset + TrackMetadataSize(sampleType) > metaLen
       THEN Thrown("RangeError")
     ELSE IF \E i \in 1..numSamples : sampleOff(i) > rawLen THEN Thrown("RangeError")
     ELSE [ok |-> TRUE, rawDataOffset |-> rawDataOffset,
           metadataOffset |-> metadataOffset,
           samples |-> [i \in 1..numSamples |-> sampleOff(i)]]

RECURSIVE BuildTracks(_, _, _, _, _, _, _, _)
\* the loop of part_006:97-103 from track t on: the tracks built, or the
\* first error
BuildTracks(t, numTracks, sampleType, numSamples, rawLen, metaLen, rawDataOffset, metadataOffset) ==
  IF t >= numTracks THEN [tracks |-> <<>>, ok |-> TRUE]
  ELSE LET tr == ConstructTrack(sampleType, numSamples, rawLen, rawDataOffset,
                                metaLen, metadataOffset)
       IN IF ~tr.ok THEN tr
          ELSE LET rest == BuildTracks(t + 1, numTracks, sampleType, numSamples,
                              rawLen, metaLen,
                              rawDataOffset + GetNumFloatsPerSample(sampleType) * numSamples,
                              metadataOffset + TrackMetadataSize(sampleType))
               IN IF ~rest.ok THEN rest
                  ELSE [tracks |-> <<tr>> \o rest.tracks, ok |-> TRUE]

\* new TrackArray(numTracks, sampleType, numSamplesPerTrack, sampleRate)
ConstructTrackArray(a) ==
  IF ~a.numTracks.int THEN Thrown("TypeError")
  ELSE IF a.numTracks.v < 0 \/ a.numTracks.v > MaxCount THEN Thrown("RangeError")
  ELSE IF ~IsSampleType(a.sampleType) THEN Thrown("TypeError")
  ELSE IF ~a.numSamples.int THEN Thrown("TypeError")
  ELSE IF a.numSamples.v < 0 \/ a.numSamples.v > MaxCount THEN Thrown("RangeError")
  ELSE IF ~a.sampleRate.finite \/ a.sampleRate.milli < 0
            \/ a.sampleRate.milli >= RateLimitMilli THEN Thrown("RangeError")
  ELSE
    LET numTracks == a.numTracks.v
        numSamples == a.numSamples.v
        metaLen == GetMetadataSize(numTracks, a.sampleType)
        rawLen == GetNumFloatsPerSample(a.sampleType) * numSamples * numTracks
        built == BuildTracks(0, numTracks, a.sampleType, numSamples, rawLen,
                             metaLen, 0, 4)
    IN IF ~built.ok THEN built
       ELSE [numTracks |-> numTracks, sampleType |-> a.sampleType, tracks |-> built.tracks,
             ok |-> TRUE, rawLen |-> rawLen,
             metaLen |-> metaLen, numSamplesPerTrack |-> numSamples]

\* counts tried with every other argument
SmallCounts == {Count(FALSE, 0), Count(TRUE, 0 - 1), Count(TRUE, 0),
                Count(TRUE, 1), Count(TRUE, 2)}

\* sample rates tried: not finite, -0.001, 0, 30, 9999.999, 10000
Rates == {Rate(FALSE, 0), Rate(TRUE, 0 - 1), Rate(TRUE, 0), Rate(TRUE, 30000),
          Rate(TRUE, RateLimitMilli - 1), Rate(TRUE, RateLimitMilli)}

\* the arguments passed to new TrackArray.  The counts at the upper limit
\* are tried where the other count makes the buffers empty.
TrackArrayArgs ==
  {[numTracks |-> nt, sampleType |-> st, numSamples |-> ns, sampleRate |-> r] :
     nt \in SmallCounts, st \in {"qvv", "float", "vec3"}, ns \in SmallCounts,
     r \in Rates}
  \cup {[numTracks |-> Count(TRUE, n), sampleType |-> "qvv",
         numSamples |-> Count(TRUE, 0), sampleRate |-> Rate(TRUE, 30000)] :
          n \in {MaxCount + 1}}
  \cup {[numTracks |-> Count(TRUE, 0), sampleType |-> "qvv",
         numSamples |-> Count(TRUE, n), sampleRate |-> Rate(TRUE, 30000)] :
          n \in {MaxCount, MaxCount + 1}}

\* the host constructs a TrackArray
NewTrackArray(a) == PureCall("TrackArray", a, ConstructTrackArray(a))

\* ------------------------------------------- linear interpolation samples

\* A non-negative double below 32 is whole + (hi * Limb + lo) / 2^54: the
\* fraction is kept in units of 2^-54, in two limbs of 27 bits.
Limb == 2^27

\* the hi limb of the fraction 0.5
Half == Limb \div 2

Dbl(w, hi, lo) == [hi |-> hi, lo |-> lo, w |-> w]

\* the spacing of the doubles around whole + hi/Limb, in units of 2^-54
\* (53 significant bits); every multiple of 2^-54 below 0.5 is a double
Gran(w, hi) ==
  IF w = 0 THEN (IF hi >= Half THEN 2 ELSE 1)
  ELSE IF w < 2 THEN 4
  ELSE IF w < 4 THEN 8
  ELSE IF w < 8 THEN 16
  ELSE IF w < 16 THEN 32
  ELSE 64

IsDouble(x) == x.lo % Gran(x.w, x.hi) = 0

\* the double nearest to the exact value whole + (hi * Limb + lo) / 2^54,
\* ties to the even significand, as every arithmetic operation of IEEE 754
\* rounds its result
RoundDouble(w, hi, lo) ==
  LET g == Gran(w, hi)
      q == lo \div g
      rem == lo % g
      up == rem * 2 > g \/ (rem * 2 = g /\ q % 2 = 1)
      lo1 == (q + (IF up THEN 1 ELSE 0)) * g
      hi1 == hi + (IF lo1 >= Limb THEN 1 ELSE 0)
  IN Dbl(w + (IF hi1 >= Limb THEN 1 ELSE 0), hi1 % Limb, lo1 % Limb)

\* sampleTime * sampleRate for a whole sampleRate r
MulDouble(x, r) ==
  LET lo == x.lo * r
      hi == x.hi * r + lo \div Limb
  IN RoundDouble(x.w * r + hi \div Limb, hi % Limb, lo % Limb)

\* x + 0.5 for 0 <= x < 1
AddHalf(x) ==
  LET hi == x.hi + Half
  IN RoundDouble(x.w + hi \div Limb, hi % Limb, x.lo)

\* Math.floor(x)
Floor(x) == x.w

\* x - Math.floor(x): exact, a multiple of the spacing at x
Fraction(x) == Dbl(0, x.hi, x.lo)

Min(a, b) == IF a < b THEN a ELSE b

\* isRoundingPolicy of rounding_policy.js: one of the four enumerated objects
IsRoundingPolicy(policy) == policy \in {"none", "floor", "ceil", "nearest"}

\* findLinearInterpolationSamplesWithSampleRate with Ceil returning the
\* next pair of samples
FindSamplesCeilAdvances(numSamples, sampleRate, sampleTime, roundingPolicy) ==
  IF ~numSamples.int \/ numSamples.v < 0 THEN Thrown("RangeError")
  ELSE IF ~sampleRate.finite \/ sampleRate.v < 0 THEN Thrown("RangeError")
  ELSE IF ~sampleTime.finite \/ sampleTime.neg THEN Thrown("RangeError")
  ELSE IF ~IsRoundingPolicy(roundingPolicy) THEN Thrown("TypeError")
  ELSE
    LET sampleIndex == MulDouble(sampleTime.v, sampleRate.v)
        floorIndex == Floor(sampleIndex)
        sampleIndex0 == IF roundingPolicy = "ceil"
                          THEN Min(floorIndex + 1, numSamples.v - 1)
                          ELSE floorIndex
        sampleIndex1 == Min(sampleIndex0 + 1, numSamples.v - 1)
        interpolationAlpha == Fraction(sampleIndex)
    IN IF sampleIndex0 > sampleIndex1 \/ sampleIndex1 >= numSamples.v
         THEN Thrown("RangeError")
       ELSE [ok |-> TRUE, sampleIndex0 |-> sampleIndex0,
             sampleIndex1 |-> sampleIndex1,
             interpolationAlpha |->
               CASE roundingPolicy = "none" -> interpolationAlpha
                 [] roundingPolicy = "floor" -> Dbl(0, 0, 0)
                 [] roundingPolicy = "ceil" -> Dbl(0, 0, 0)
                 [] roundingPolicy = "nearest" ->
                      Dbl(Floor(AddHalf(interpolationAlpha)), 0, 0)]

\* findLinearInterpolationSamplesWithSampleRate accepting an empty track
FindSamplesEmptyOk(numSamples, sampleRate, sampleTime, roundingPolicy) ==
  IF ~numSamples.int \/ numSamples.v < 0 THEN Thrown("RangeError")
  ELSE IF ~sampleRate.finite \/ sampleRate.v < 0 THEN Thrown("RangeError")
  ELSE IF ~sampleTime.finite \/ sampleTime.neg THEN Thrown("RangeError")
  ELSE IF ~IsRoundingPolicy(roundingPolicy) THEN Thrown("TypeError")
  ELSE
    LET sampleIndex == MulDouble(sampleTime.v, sampleRate.v)
        sampleIndex0 == Floor(sampleIndex)
        sampleIndex1 == Min(sampleIndex0 + 1, numSamples.v - 1)
        interpolationAlpha == Fraction(sampleIndex)
    IN IF numSamples.v > 0 /\ (sampleIndex0 > sampleIndex1 \/ sampleIndex1 >= numSamples.v)
         THEN Thrown("RangeError")
       ELSE [ok |-> TRUE, sampleIndex0 |-> sampleIndex0,
             sampleIndex1 |-> sampleIndex1,
             interpolationAlpha |->
               CASE roundingPolicy = "none" -> interpolationAlpha
                 [] roundingPolicy = "floor" -> Dbl(0, 0, 0)
                 [] roundingPolicy = "ceil" -> Dbl(1, 0, 0)
                 [] roundingPolicy = "nearest" ->
                      Dbl(Floor(AddHalf(interpolationAlpha)), 0, 0)]

\* findLinearInterpolationSamplesWithSampleRate(numSamples, sampleRate,
\* sampleTime, roundingPolicy) of util.js.  The alpha computed at line 56 is
\* the exact fraction of the product, inside [0, 1), so the check of line 58
\* never throws.
FindSamples(numSamples, sampleRate, sampleTime, roundingPolicy) ==
  IF ~numSamples.int \/ numSamples.v < 0 THEN Thrown("RangeError")
  ELSE IF ~sampleRate.finite \/ sampleRate.v < 0 THEN Thrown("RangeError")
  ELSE IF ~sampleTime.finite \/ sampleTime.neg THEN Thrown("RangeError")
  ELSE IF ~IsRoundingPolicy(roundingPolicy) THEN Thrown("TypeError")
  ELSE
    LET sampleIndex == MulDouble(sampleTime.v, sampleRate.v)
        sampleIndex0 == Floor(sampleIndex)
        sampleIndex1 == Min(sampleIndex0 + 1, numSamples.v - 1)
        interpolationAlpha == Fraction(sampleIndex)
    IN IF sampleIndex0 > sampleIndex1 \/ sampleIndex1 >= numSamples.v
         THEN Thrown("RangeError")
       ELSE [ok |-> TRUE, sampleIndex0 |-> sampleIndex0,
             sampleIndex1 |-> sampleIndex1,
             interpolationAlpha |->
               CASE roundingPolicy = "none" -> interpolationAlpha
                 [] roundingPolicy = "floor" -> Dbl(0, 0, 0)
                 [] roundingPolicy = "ceil" -> Dbl(1, 0, 0)
                 [] roundingPolicy = "nearest" ->
                      Dbl(Floor(AddHalf(interpolationAlpha)), 0, 0)]

\* numSamples tried: not an integer, 0, 1, 2
SampleCounts == {Count(FALSE, 0), Count(TRUE, 0), Count(TRUE, 1), Count(TRUE, 2)}

\* sample rates tried: not finite, -1, 0, 1, 2
SampleRates == {[v |-> 0, finite |-> FALSE]}
               \cup {[v |-> r, finite |-> TRUE] : r \in (0 - 1)..2}

\* fractions tried: 0, 0.25, 0.49999999999999994 (the double before 0.5)
\* and 0.5
Fractions == {<<0, 0>>, <<Half \div 2, 0>>, <<Half - 1, Limb - 1>>, <<Half, 0>>}

\* sample times tried: not finite, negative, and the doubles whole + fraction
SampleTimes ==
  {[v |-> Dbl(0, 0, 0), finite |-> FALSE, neg |-> FALSE],
   [v |-> Dbl(1, 0, 0), finite |-> TRUE, neg |-> TRUE]}
  \cup {[v |-> x, finite |-> TRUE, neg |-> FALSE] :
          x \in {d \in {Dbl(w, f[1], f[2]) : w \in 0..2, f \in Fractions} :
                   IsDouble(d)}}

\* rounding policies passed: the four enumerated objects and another value
Policies == {"none", "floor", "ceil", "nearest", "other"}

\* the host calls findLinearInterpolationSamplesWithSampleRate
FindLinearInterpolationSamples(n, rate, time, policy) ==
  PureCall("findSamples",
           [numSamples |-> n, sampleRate |-> rate, sampleTime |-> time,
            roundingPolicy |-> policy],
           FindSamples(n, rate, time, policy))

NextSample ==
  \E n \in SampleCounts, rate \in SampleRates, time \in SampleTimes,
     policy \in Policies : FindLinearInterpolationSamples(n, rate, time, policy)

SpecSample == Init /\ [][NextSample]_vars

\* ---------------------------------------------------------- sampleTrack

\* k / r for whole k and r: exact, hence correctly rounded, for the sample
\* rates 1 and 2 of SampledArrays
DivDouble(k, r) == Dbl(k \div r, (k % r) * (Limb \div r), 0)

\* a < b for doubles that are not negative
DblLess(a, b) ==
  \/ a.w < b.w
  \/ a.w = b.w /\ a.hi < b.hi
  \/ a.w = b.w /\ a.hi = b.hi /\ a.lo < b.lo

\* Track.duration, read through TrackArray.duration
Duration(a) ==
  IF a.numTracks = 0 \/ a.numSamples = 0 THEN [v |-> Dbl(0, 0, 0), inf |-> FALSE]
  ELSE IF a.numSamples = 1 THEN [v |-> Dbl(0, 0, 0), inf |-> TRUE]
  ELSE [v |-> DivDouble(a.numSamples - 1, a.sampleRate), inf |-> FALSE]

\* Math.max(Math.min(sampleTime, this.duration), 0.0) for a finite sampleTime
ClampTime(sampleTime, duration) ==
  IF sampleTime.neg THEN [v |-> Dbl(0, 0, 0), finite |-> TRUE, neg |-> FALSE]
  ELSE IF ~duration.inf /\ DblLess(duration.v, sampleTime.v)
    THEN [v |-> duration.v, finite |-> TRUE, neg |-> FALSE]
  ELSE sampleTime

\* Track.at(sampleIndex) throws for an index outside the samples
TrackAtThrows(numSamples, sampleIndex) ==
  sampleIndex < 0 \/ sampleIndex >= numSamples

\* TrackArray.sampleTrack(trackIndex, sampleTime, roundingPolicy): what it
\* throws, or the two samples and the alpha that the returned value is
\* interpolated from
SampleTrack(a, trackIndex, sampleTime, roundingPolicy) ==
  IF ~trackIndex.int \/ trackIndex.v < 0 \/ trackIndex.v >= a.numTracks
    THEN Thrown("RangeError")
  ELSE IF ~sampleTime.finite THEN Thrown("RangeError")
  ELSE IF ~IsRoundingPolicy(roundingPolicy) THEN Thrown("TypeError")
  ELSE
    LET clamped == ClampTime(sampleTime, Duration(a))
        interpolationData ==
          FindSamples(Count(TRUE, a.numSamples),
                      [v |-> a.sampleRate, finite |-> TRUE], clamped,
                      roundingPolicy)
    IN IF ~interpolationData.ok THEN interpolationData
       ELSE IF TrackAtThrows(a.numSamples, interpolationData.sampleIndex0)
               \/ TrackAtThrows(a.numSamples, interpolationData.sampleIndex1)
         THEN Thrown("RangeError")
       ELSE interpolationData

\* the track arrays sampled: one track of 1, 2 or 3 samples at 1 or 2
\* samples per second
SampledArrays ==
  {[numTracks |-> 1, numSamples |-> n, sampleRate |-> r] :
     n \in 1..3, r \in 1..2}

\* the track indices passed: 0, 1 (past the only track), -1 and 0.5
SampledIndices ==
  {Count(TRUE, 0), Count(TRUE, 1), Count(TRUE, 0 - 1), Count(FALSE, 0)}

\* the host calls tracks.sampleTrack
CallSampleTrack(a, trackIndex, time, policy) ==
  PureCall("sampleTrack",
           [trackIndex |-> trackIndex, tracks |-> a, sampleTime |-> time,
            roundingPolicy |-> policy],
           SampleTrack(a, trackIndex, time, policy))

NextSampleTrack ==
  \E a \in SampledArrays, trackIndex \in SampledIndices, time \in SampleTimes,
     policy \in Policies : CallSampleTrack(a, trackIndex, time, policy)

SpecSampleTrack == Init /\ [][NextSampleTrack]_vars

\* ----------------------------------------------------------------- Sample

\* what reading a Float64Array outside its length returns: undefined
Undefined == 0 - 1

\* rawData[i], i counted from 0
RawRead(rawData, i) ==
  IF i >= 0 /\ i < Len(rawData) THEN rawData[i + 1] ELSE Undefined

\* new Sample(type, rawData, rawDataOffset): the error it throws, or ""
SampleConstructorError(type, rawData, rawDataOffset) ==
  IF ~IsSampleType(type) THEN "TypeError"
  ELSE IF rawDataOffset < 0 \/ rawDataOffset > Len(rawData) THEN "RangeError"
  ELSE ""

\* the buffer after n consecutive element stores from rawDataOffset on; a
\* store outside the length of a Float64Array is ignored
RawStore(rawData, rawDataOffset, n, value) ==
  [k \in 1..Len(rawData) |->
     IF k - 1 >= rawDataOffset /\ k - 1 < rawDataOffset + n
       THEN value[k - rawDataOffset]
       ELSE rawData[k]]

\* the n elements a getter reads from rawDataOffset on
RawLoad(rawData, rawDataOffset, n) ==
  [i \in 1..n |-> RawRead(rawData, rawDataOffset + i - 1)]

\* the outcome of a call on a sample: the error thrown ("" = returned), the
\* buffer after the call, and what the call returned (for a setter: what the
\* matching getter returns right after it)
SampleOutcome(err, rawData, value) ==
  [err |-> err, rawData |-> rawData, value |-> value]

\* sample.setQVV(value), sample.setFloat(value), sample.getQVV() or
\* sample.getFloat() on a sample of the given type at rawDataOffset
SampleCall(type, rawData, rawDataOffset, call, value) ==
  LET callType == IF call \in {"setQVV", "getQVV"} THEN "qvv" ELSE "float"
      n == GetNumFloatsPerSample(type)
  IN IF type # callType THEN SampleOutcome("TypeError", rawData, <<>>)
     ELSE IF call \in {"setQVV", "setFloat"}
       THEN LET after == RawStore(rawData, rawDataOffset, n, value)
            IN SampleOutcome("", after, RawLoad(after, rawDataOffset, n))
     ELSE SampleOutcome("", rawData, RawLoad(rawData, rawDataOffset, n))

\* length of the raw buffers the samples are constructed over
RawLength == 12

\* the buffers: zero as allocated, and one with every slot written
RawBuffers == {[k \in 1..RawLength |-> 0], [k \in 1..RawLength |-> 50 + k]}

\* the values written: n components counted from 1 or from 21
SampleValues(n) == {[i \in 1..n |-> b + i] : b \in {0, 20}}

\* the samples a host constructs: every type and offset the constructor accepts
SampleArgs ==
  {a \in [type : {"qvv", "float"}, rawData : RawBuffers,
          rawDataOffset : 0..RawLength] :
     SampleConstructorError(a.type, a.rawData, a.rawDataOffset) = ""}

\* the host calls a setter and then the matching getter, or a getter
CallSample(a, call, value) ==
  PureCall("sample",
           [value |-> value, call |-> call, sample |-> a],
           SampleCall(a.type, a.rawData, a.rawDataOffset, call, value))

NextSampleCall ==
  \E a \in SampleArgs, call \in {"setQVV", "getQVV", "setFloat", "getFloat"} :
    \E value \in SampleValues(IF call = "setQVV" THEN 10 ELSE 1) :
      CallSample(a, call, value)

SpecSampleCall == Init /\ [][NextSampleCall]_vars

\* ------------------------------------------------------------- isValid

\* A number stored in an index field: an integer v, the non-integer
\* v + 0.5, or NaN.
Num(kind, v) == [v |-> v, kind |-> kind]

\* x < c and x >= c for an integer c; both are false of NaN
NumLt(x, c) == x.kind # "nan" /\ x.v < c
NumGe(x, c) == x.kind # "nan" /\ x.v >= c

\* A number stored in a threshold field: finite is Number.isFinite(x) and v
\* its value in units of 0.00001.
Flt(finite, v) == [v |-> v, finite |-> finite]

\* track_desc.js:99  65535
IndexLimit == 65535

\* track_desc.js:103  100.0, in units of 0.00001
ThresholdLimit == 10000000

\* track_desc.js:291  10000.0, in units of 0.00001
ShellDistanceLimit == 1000000000

\* the test applied to each threshold field
OutOfRange(x, limit) == ~x.finite \/ x.v < 0 \/ x.v >= limit

\* ScalarTrackDescription.isValid()
ScalarDescIsValid(d) ==
  IF d.outputIndex.kind # "int" \/ NumLt(d.outputIndex, 0)
       \/ NumGe(d.outputIndex, IndexLimit) THEN FALSE
  ELSE IF OutOfRange(d.precision, ThresholdLimit) THEN FALSE
  ELSE TRUE

\* TransformTrackDescription.isValid().  Line 283 tests whether outputIndex
\* is an integer before it compares parentIndex.
TransformDescIsValid(d) ==
  IF d.outputIndex.kind # "int" \/ NumLt(d.outputIndex, 0)
       \/ NumGe(d.outputIndex, IndexLimit) THEN FALSE
  ELSE IF d.outputIndex.kind # "int" \/ NumLt(d.parentIndex, 0 - 1)
       \/ NumGe(d.parentIndex, IndexLimit) THEN FALSE
  ELSE IF OutOfRange(d.precision, ThresholdLimit) THEN FALSE
  ELSE IF OutOfRange(d.shellDistance, ShellDistanceLimit) THEN FALSE
  ELSE IF OutOfRange(d.constantRotationThresholdAngle, ThresholdLimit) THEN FALSE
  ELSE IF OutOfRange(d.constantTranslationThreshold, ThresholdLimit) THEN FALSE
  ELSE IF OutOfRange(d.constantScaleThreshold, ThresholdLimit) THEN FALSE
  ELSE TRUE

\* this._desc.isValid() of a track of the given sample type
DescIsValid(sampleType, d) ==
  IF sampleType = "qvv" THEN TransformDescIsValid(d) ELSE ScalarDescIsValid(d)

\* A component of a sample: finite is Number.isFinite(x) and v its value in
\* thousandths.
Comp(finite, v) == [v |-> v, finite |-> finite]

\* quat.js:52  0.0001, in millionths
QuatTolerance == 100

\* Quat.isValid(): the squared length, in millionths, is finite and within
\* the tolerance of 1
QuatIsValid(q) ==
  LET lenSq == q[1].v * q[1].v + q[2].v * q[2].v + q[3].v * q[3].v + q[4].v * q[4].v
      diff == lenSq - 1000000
  IN IF \E i \in 1..4 : ~q[i].finite THEN FALSE
     ELSE (IF diff < 0 THEN 0 - diff ELSE diff) < QuatTolerance

\* Vec3.isValid()
Vec3IsValid(v) == \A i \in 1..3 : v[i].finite

\* Sample.isValid()
SampleIsValid(sampleType, s) ==
  IF sampleType = "qvv"
    THEN QuatIsValid(s.rotation) /\ Vec3IsValid(s.translation) /\ Vec3IsValid(s.scale)
  ELSE IF sampleType = "float" THEN s.finite
  ELSE FALSE

RECURSIVE SamplesAreValid(_, _, _)
\* the loop of Track.isValid() from sample i on
SamplesAreValid(sampleType, samples, i) ==
  IF i > Len(samples) THEN TRUE
  ELSE IF ~SampleIsValid(sampleType, samples[i]) THEN FALSE
  ELSE SamplesAreValid(sampleType, samples, i + 1)

\* Track.isValid() without the test of the description
TrackIsValidIgnoresDesc(sampleType, track) ==
  SamplesAreValid(sampleType, track.samples, 1)

\* Track.isValid()
TrackIsValid(sampleType, track) ==
  IF ~DescIsValid(sampleType, track.desc) THEN FALSE
  ELSE SamplesAreValid(sampleType, track.samples, 1)

RECURSIVE TracksAreValid(_, _, _)
\* the loop of TrackArray.isValid() from track i on
TracksAreValid(sampleType, tracks, i) ==
  IF i > Len(tracks) THEN TRUE
  ELSE IF ~TrackIsValid(sampleType, tracks[i]) THEN FALSE
  ELSE TracksAreValid(sampleType, tracks, i + 1)

\* TrackArray.isValid()
TrackArrayIsValid(ta) == TracksAreValid(ta.sampleType, ta.tracks, 1)

\* a description with every field in range; outputIndex is the track index,
\* as the TrackArray constructor sets it
GoodDesc(sampleType, trackIndex) ==
  IF sampleType = "qvv"
    THEN [outputIndex |-> Num("int", trackIndex),
          precision |-> Flt(TRUE, 10),
          parentIndex |-> Num("int", 0 - 1),
          shellDistance |-> Flt(TRUE, 100000),
          constantRotationThresholdAngle |-> Flt(TRUE, 285),
          constantTranslationThreshold |-> Flt(TRUE, 1),
          constantScaleThreshold |-> Flt(TRUE, 1)]
  ELSE [outputIndex |-> Num("int", trackIndex), precision |-> Flt(TRUE, 0)]

\* index values a host stores: -1, 0, 65534, 65535, 0.5 and NaN
IndexValues == {Num("int", 0 - 1), Num("int", 0), Num("int", IndexLimit - 1),
                Num("int", IndexLimit), Num("frac", 0), Num("nan", 0)}

\* threshold values a host stores: not finite, negative, 0 and the limit
ThresholdValues(limit) ==
  {Flt(FALSE, 0), Flt(TRUE, 0 - 1), Flt(TRUE, 0), Flt(TRUE, limit)}

\* the descriptions that differ from GoodDesc in at most one field
Descs(sampleType, trackIndex) ==
  LET good == GoodDesc(sampleType, trackIndex)
  IN {[good EXCEPT !.outputIndex = x] : x \in IndexValues \cup {Num("int", trackIndex)}}
     \cup {[good EXCEPT !.precision = x] : x \in ThresholdValues(ThresholdLimit)}
     \cup (IF sampleType # "qvv" THEN {}
           ELSE {[good EXCEPT !.parentIndex = x] :
                   x \in IndexValues \cup {Num("int", 0 - 2)}}
                \cup {[good EXCEPT !.shellDistance = x] :
                        x \in ThresholdValues(ShellDistanceLimit)}
                \cup {[good EXCEPT !.constantRotationThresholdAngle = x] :
                        x \in ThresholdValues(ThresholdLimit)}
                \cup {[good EXCEPT !.constantTranslationThreshold = x] :
                        x \in ThresholdValues(ThresholdLimit)}
                \cup {[good EXCEPT !.constantScaleThreshold = x] :
                        x \in ThresholdValues(ThresholdLimit)})

\* the identity sample, written by the Track constructor
GoodSample(sampleType) ==
  IF sampleType = "qvv"
    THEN [rotation |-> <<Comp(TRUE, 0), Comp(TRUE, 0), Comp(TRUE, 0), Comp(TRUE, 1000)>>,
          translation |-> <<Comp(TRUE, 0), Comp(TRUE, 0), Comp(TRUE, 0)>>,
          scale |-> <<Comp(TRUE, 1000), Comp(TRUE, 1000), Comp(TRUE, 1000)>>]
  ELSE [finite |-> TRUE]

\* the samples a host stores: the identity; rotations of length 0, of
\* squared length 1.000081 and 1.0004 and with a NaN; a translation and a
\* scale with a component that is not finite
Samples(sampleType) ==
  LET good == GoodSample(sampleType)
  IN IF sampleType = "qvv"
       THEN {good,
             [good EXCEPT !.rotation[4] = Comp(TRUE, 0)],
             [good EXCEPT !.rotation[1] = Comp(TRUE, 9)],
             [good EXCEPT !.rotation[1] = Comp(TRUE, 20)],
             [good EXCEPT !.rotation[2] = Comp(FALSE, 0)],
             [good EXCEPT !.translation[3] = Comp(FALSE, 0)],
             [good EXCEPT !.scale[1] = Comp(FALSE, 0)]}
     ELSE {good, [finite |-> FALSE]}

\* a track of numSamples identity samples with a description in range
GoodTrack(sampleType, numSamples, trackIndex) ==
  [samples |-> [i \in 1..numSamples |-> GoodSample(sampleType)],
   desc |-> GoodDesc(sampleType, trackIndex)]

\* the tracks that differ from GoodTrack in at most one field of the
\* description or in one sample
Tracks(sampleType, numSamples, trackIndex) ==
  LET good == GoodTrack(sampleType, numSamples, trackIndex)
  IN {[good EXCEPT !.desc = d] : d \in Descs(sampleType, trackIndex)}
     \cup {[good EXCEPT !.samples[i] = x] :
             i \in 1..numSamples, x \in Samples(sampleType)}

\* the sample types and samples per track of the arrays a host has built
ArrayShapes == {<<"qvv", 1>>, <<"float", 1>>, <<"float", 2>>}

\* the track arrays a host has built: up to two tracks, at most one of them
\* changed after construction
TrackArrays ==
  {[sampleType |-> st, numSamples |-> ns, tracks |-> tr] :
     st \in {"qvv"}, ns \in {1}, tr \in {<<>>}}
  \cup UNION {
    {[sampleType |-> sh[1], numSamples |-> sh[2], tracks |-> tr] :
       tr \in {<<t>> : t \in Tracks(sh[1], sh[2], 0)}
              \cup {<<t, GoodTrack(sh[1], sh[2], 1)>> : t \in Tracks(sh[1], sh[2], 0)}
              \cup {<<GoodTrack(sh[1], sh[2], 0), t>> : t \in Tracks(sh[1], sh[2], 1)}} :
    sh \in ArrayShapes}

\* the host calls tracks.isValid()
IsValid(ta) == PureCall("isValid", ta, TrackArrayIsValid(ta))

\* the argument Encoder.compress sees when it is passed the TrackArray ta:
\* valid is what ta.isValid() returns at encoder.js:74
AsEncTracks(ta) ==
  [numTracks |-> Len(ta.tracks),
   sampleType |-> ta.sampleType, kind |-> IF TrackArrayIsValid(ta) THEN "valid" ELSE "invalid",
   numSamples |-> ta.numSamples]

\* the host passes the track array it last asked isValid() of to
\* Encoder.compress
CompressArray(ok, alloc, grow) ==
  /\ pure.op = "isValid"
  /\ Compress(AsEncTracks(pure.in), ok, alloc, grow)

\* the host builds track arrays, asks whether they are valid and compresses
\* the invalid ones and the QVV ones; the native compress succeeds
NextValid ==
  \/ \E ta \in TrackArrays : IsValid(ta)
  \/ NewEncoder
  \/ \E s \in EncSegmentHeads : EncLoad(s)
  \/ /\ pure.op = "isValid"
     /\ ~pure.out \/ pure.in.sampleType = "qvv"
     /\ \E alloc \in NativeAllocs : CompressArray(TRUE, alloc, FALSE)

SpecValid == Init /\ [][NextValid]_vars

NextPure ==
  \/ \E b \in CtBuffers : NewCT(b)
  \/ \E a \in TrackArrayArgs : NewTrackArray(a)

SpecPure == Init /\ [][NextPure]_vars

\* ---------------------------------------------------------- specifications

\* the host uses the arena directly: malloc, queueFree, garbageCollect and
\* the handles it got from malloc
NextArena ==
  \/ \E s \in SegmentHeads : Load(s)
  \/ \E n \in AllocSizes, grow \in BOOLEAN : Malloc(n, grow)
  \/ \E h \in 1..MaxMems : QueueFree(h)
  \/ \E grow \in BOOLEAN : GarbageCollect(grow)
  \/ \E h \in 1..MaxMems : ResolveArray(h)
  \/ \E h \in 1..MaxMems : WriteMem(h)

SpecArena == Init /\ [][NextArena]_vars

\* the host uses the decoder through CompressedTracks, DecompressedTracks
\* and the two decompress entry points
Next ==
  \/ \E s \in SegmentHeads : Load(s)
  \/ \E grow \in BOOLEAN : GarbageCollect(grow)
  \/ \E isDecoder \in BOOLEAN, grow \in BOOLEAN : Bind(isDecoder, grow)
  \/ Dispose
  \/ \E n \in DtSizes, grow \in BOOLEAN : DtResize(n, grow)
  \/ DtDispose
  \/ \E c \in TracksCalls, valid \in BOOLEAN, growAt \in GrowPoints :
       DecompressTracks(c[1], c[2], valid, growAt)
  \/ \E c \in TrackCalls, valid \in BOOLEAN, growAt \in GrowPoints :
       DecompressTrack(c.arg, c.tiInt, c.ti, c.out, c.outLen, valid, growAt)

Spec == Init /\ [][Next]_vars

\* the calls of decompressTrack that pass every argument check up to the
\* output checks and decode into the DecompressedTracks
DtTrackCalls ==
  {c \in TrackCalls : c.arg = "ok" /\ c.tiInt /\ c.ti >= 0 /\ c.out = "dt"}

\* the host mixes its own allocations with single-track decompression
NextMixed ==
  \/ \E s \in SegmentHeads : Load(s)
  \/ \E n \in AllocSizes, grow \in BOOLEAN : Malloc(n, grow)
  \/ \E h \in 1..MaxMems : WriteMem(h)
  \/ \E grow \in BOOLEAN : GarbageCollect(grow)
  \/ \E grow \in BOOLEAN : Bind(TRUE, grow)
  \/ Dispose
  \/ \E c \in DtTrackCalls, growAt \in GrowPoints :
       DecompressTrack(c.arg, c.tiInt, c.ti, c.out, c.outLen, TRUE, growAt)

SpecMixed == Init /\ [][NextMixed]_vars

\* the host uses the encoder
NextEnc ==
  \/ NewEncoder
  \/ \E s \in EncSegmentHeads : EncLoad(s)
  \/ \E t \in EncTracks, ok \in BOOLEAN, alloc \in NativeAllocs, grow \in BOOLEAN :
       Compress(t, ok, alloc, grow)

SpecEnc == Init /\ [][NextEnc]_vars

\* the host constructs instances and calls them while the modules load
NextLoad ==
  \/ NewDecoder
  \/ \E d \in 1..MaxInstances : IsReady(d)
  \/ \E s \in SegmentHeads : Load(s)
  \/ NewEncoder
  \/ \E e \in 1..MaxInstances : EncIsReady(e)
  \/ \E s \in EncSegmentHeads : EncLoad(s)
  \/ ~ready /\ \E n \in AllocSizes : Malloc(n, FALSE)
  \/ ~ready /\ QueueFree(0)
  \/ ~ready /\ GarbageCollect(FALSE)
  \/ ~ready /\ \E isDecoder \in BOOLEAN : Bind(isDecoder, FALSE)
  \/ ~ready /\ \E c \in TracksCalls, valid \in BOOLEAN :
                  DecompressTracks(c[1], c[2], valid, "none")
  \/ ~ready /\ \E c \in TrackCalls, valid \in BOOLEAN :
                  DecompressTrack(c.arg, c.tiInt, c.ti, c.out, c.outLen, valid, "none")
  \/ ~enc.ready /\ \E t \in EncTracks : Compress(t, TRUE, 0, FALSE)

SpecLoad == Init /\ [][NextLoad]_vars

\* the host keeps handles of its own next to a DecompressedTracks and reads
\* the arrays of both while the memory grows and is collected
NextView ==
  \/ \E s \in SegmentHeads : Load(s)
  \/ \E n \in AllocSizes, grow \in BOOLEAN : Malloc(n, grow)
  \/ \E h \in 1..MaxMems : QueueFree(h)
  \/ \E grow \in BOOLEAN : GarbageCollect(grow)
  \/ \E h \in 1..MaxMems : ResolveArray(h)
  \/ \E n \in DtSizes, grow \in BOOLEAN : DtResize(n, grow)
  \/ DtArray

SpecView == Init /\ [][NextView]_vars

\* values of sbrk(0) after _start(), for builds whose data segment ends at
\* any byte below 48
AnySegmentHeads == 0..47

\* the module loads with any segment head and the host allocates from the
\* arena that the load set up
NextHeads ==
  \/ \E s \in AnySegmentHeads : Load(s)
  \/ \E n \in AllocSizes : Malloc(n, FALSE)
  \/ \E h \in 1..MaxMems : ResolveArray(h)

SpecHeads == Init /\ [][NextHeads]_vars

\* ------------------------------------------------------------- properties

\* the handles of heapAllocations that are not queued for free, in order
LiveSeq == SelectSeq(heapAllocations, LAMBDA h : ~mems[h].queued)

RECURSIVE SumLen(_, _)
\* the sum of the byteLengths of the first n handles of the sequence
SumLen(seq, n) == IF n = 0 THEN 0 ELSE SumLen(seq, n - 1) + mems[seq[n]].len

\* the live handles tile the heap from heapInitialSize in allocation order,
\* and the break is the end of the last one
Tiled ==
  /\ \A i \in 1..Len(LiveSeq) :
       /\ mems[LiveSeq[i]].off = heapInitialSize + SumLen(LiveSeq, i - 1)
       /\ i > 1 => LiveSeq[i - 1] < LiveSeq[i]
  /\ top = heapInitialSize + SumLen(LiveSeq, Len(LiveSeq))

\* C1: over malloc, queueFree and garbageCollect calls, right after every
\* garbageCollect() the live handles are disjoint, tile the heap from
\* heapInitialSize upward in allocation order without gaps, and sbrk(0) is
\* heapInitialSize plus the sum of their byteLengths.
C1_TiledAfterGC ==
  [][(\E grow \in BOOLEAN : GarbageCollect(grow)) => Tiled']_vars

\* a collection has reclaimed a handle that was allocated before a handle
\* that is still live, and the live handles tile the heap
C1_Witness ==
  /\ heapFreeQueue = <<>>
  /\ Tiled
  /\ \E f \in hist.freed, h \in Range(heapAllocations) :
       /\ f < h
       /\ f \notin Range(heapAllocations)
       /\ mems[h].off < mems[f].off + mems[f].len

\* C2: reading WASMMemory.array of a handle that was passed to queueFree
\* throws, while the handle is queued and after garbageCollect reclaimed it;
\* no view is returned or created.
C2_FreedNeverResolves ==
  [][\A h \in 1..MaxMems :
       (ResolveArray(h) /\ h \in hist.freed)
         => (last'.err = "Freed" /\ mems' = mems)]_vars

\* the getter threw for a handle that garbageCollect had already reclaimed
C2_Witness ==
  /\ last.err = "Freed"
  /\ heapFreeQueue = <<>>
  /\ hist.freed # {}

\* no handle is twice in heapFreeQueue
NoDuplicateInFreeQueue ==
  \A i, j \in 1..Len(heapFreeQueue) :
    i # j => heapFreeQueue[i] # heapFreeQueue[j]

\* C3: queueFree on a handle that was queued before (collected since or
\* not) throws and leaves heapFreeQueue, heapAllocations and the break
\* unchanged; no handle is ever twice in heapFreeQueue.
C3_DoubleFreeFails ==
  /\ [][\A h \in 1..MaxMems :
          (QueueFree(h) /\ h \in hist.freed)
            => /\ last'.err = "AlreadyQueued"
               /\ UNCHANGED <<heapFreeQueue, heapAllocations, top>>]_vars
  /\ []NoDuplicateInFreeQueue

\* queueFree threw for a handle that garbageCollect had already reclaimed,
\* while another handle was waiting in the queue
C3_Witness ==
  /\ last.err = "AlreadyQueued"
  /\ Len(heapFreeQueue) = 1
  /\ \E f \in hist.freed : f \notin Range(heapAllocations)

\* C5: malloc(n) returns a handle whose byteLength is the smallest multiple
\* of 16 that is >= n; no later call or heap growth changes it, and every
\* view the handle resolves to has that length.
C5_PaddedLength ==
  /\ [][\A n \in AllocSizes, grow \in BOOLEAN :
          (Malloc(n, grow) /\ ready)
            => LET m == mems'[Len(mems')]
               IN /\ Len(mems') = Len(mems) + 1
                  /\ m.len % 16 = 0
                  /\ m.len >= n
                  /\ m.len - 16 < n
                  /\ m.arr.len = m.len]_vars
  /\ [][\A h \in 1..Len(mems) :
          /\ mems'[h].len = mems[h].len
          /\ (~mems'[h].queued /\ mems'[h].arr # NoView)
               => mems'[h].arr.len = mems[h].len]_vars
  /\ [][\A h \in 1..MaxMems :
          (ResolveArray(h) /\ ~mems[h].queued)
            => mems'[h].arr = MkView(heapGen, mems[h].off, mems[h].len)]_vars

\* a handle of 32 bytes asked for as 17 was moved by a collection and
\* resolved again after the memory had grown
C5_Witness ==
  \E h \in 1..Len(mems) :
    /\ mems[h].len = 32
    /\ mems[h].generation > 0
    /\ mems[h].off = heapInitialSize
    /\ h > 1
    /\ mems[h].arr = MkView(heapGen, mems[h].off, 32)
    /\ heapGen > 1

\* the bytes a handle resolves to
MemBytes(hp, m) == ViewBytes(hp, MkView(0, m.off, m.len))

\* C4: garbageCollect preserves contents: a handle that is live before and
\* after the call resolves to the same bytes after it as before it.
C4_GCPreservesContents ==
  [][(\E grow \in BOOLEAN : GarbageCollect(grow))
       => \A h \in Range(heapAllocations) :
            ~mems[h].queued => MemBytes(heap', mems'[h]) = MemBytes(heap, mems[h])]_vars

\* C6: every read or write of heap bytes after a native call goes through a
\* view of the current heap, never through a view of a replaced heap.
C6_NoStaleView == ~hist.staleUse

\* C7: bind succeeds at most once on one CompressedTracks: a bind on a bound
\* buffer throws and changes neither the buffer nor the arena; dispose queues
\* the bound handle for free; after dispose no bind succeeds or allocates.
C7_BindOnce ==
  /\ [](hist.binds <= 1)
  /\ [][\A grow \in BOOLEAN :
          (Bind(TRUE, grow) /\ ct.bound)
            => (last'.err = "AlreadyBound" /\ UNCHANGED <<ct, arenaVars>>)]_vars
  /\ [][(Dispose /\ ct.mem # 0)
          => /\ mems'[ct.mem].queued
             /\ ct.mem \in Range(heapFreeQueue')]_vars
  /\ [][\A isDecoder \in BOOLEAN, grow \in BOOLEAN :
          (Bind(isDecoder, grow) /\ hist.disposed)
            => (last'.err # "" /\ UNCHANGED <<ct, arenaVars>>)]_vars

\* a bind after the dispose of a bound buffer threw, with the handle of the
\* first bind queued for free
C7_Witness ==
  /\ hist.disposed
  /\ hist.binds = 1
  /\ last.err = "NullDeref"
  /\ \E h \in hist.freed : mems[h].owner = "ct" /\ mems[h].queued

\* C8: a decompressTracks or decompressTrack call that rejects an argument
\* throws before any native export was called and leaves the break,
\* heapAllocations and heapFreeQueue as they were.
C8_RejectBeforeNative ==
  [][((\/ \E c \in TracksCalls, valid \in BOOLEAN, growAt \in GrowPoints :
            DecompressTracks(c[1], c[2], valid, growAt)
       \/ \E c \in TrackCalls, valid \in BOOLEAN, growAt \in GrowPoints :
            DecompressTrack(c.arg, c.tiInt, c.ti, c.out, c.outLen, valid, growAt))
      /\ last'.err = "Rejected")
       => (~last'.native /\ UNCHANGED <<top, heapAllocations, heapFreeQueue>>)]_vars

\* C9: when decompress_tracks or decompress_track returns a non-zero code
\* the call throws and the break, heapAllocations and heapFreeQueue are as
\* they were before the call.
C9_NativeErrorRollsBack ==
  [][((\/ \E c \in TracksCalls, valid \in BOOLEAN, growAt \in GrowPoints :
            DecompressTracks(c[1], c[2], valid, growAt)
       \/ \E c \in TrackCalls, valid \in BOOLEAN, growAt \in GrowPoints :
            DecompressTrack(c.arg, c.tiInt, c.ti, c.out, c.outLen, valid, growAt))
      /\ last'.err = "Native")
       => UNCHANGED <<top, heapAllocations, heapFreeQueue>>]_vars

\* C10: an Encoder.compress call that passes validation leaves the break of
\* the encoder module where it was, when the native compress succeeds and
\* when it returns an error and compress throws.
C10_CompressKeepsTop ==
  [][\A t \in EncTracks, ok \in BOOLEAN, alloc \in NativeAllocs, grow \in BOOLEAN :
       (Compress(t, ok, alloc, grow) /\ enc.ready /\ t.kind = "valid")
         => enc'.top = enc.top]_vars

\* C11: while the module load has not completed, malloc, queueFree of a
\* non-null handle, garbageCollect, decompressTracks, decompressTrack and
\* CompressedTracks.bind throw and change no decoder or buffer state, and
\* Encoder.compress throws and changes no encoder state.
C11_NotReadyFails ==
  /\ [][(~ready
          /\ (\/ \E n \in AllocSizes : Malloc(n, FALSE)
              \/ QueueFree(0)
              \/ GarbageCollect(FALSE)
              \/ \E isDecoder \in BOOLEAN : Bind(isDecoder, FALSE)
              \/ \E c \in TracksCalls, valid \in BOOLEAN :
                   DecompressTracks(c[1], c[2], valid, "none")
              \/ \E c \in TrackCalls, valid \in BOOLEAN :
                   DecompressTrack(c.arg, c.tiInt, c.ti, c.out, c.outLen,
                                   valid, "none")))
         => /\ last'.err # ""
            /\ ~ct'.bound
            /\ UNCHANGED <<pure, loadVars, arenaVars, ct, dt, enc>>]_vars
  /\ [][(~enc.ready /\ \E t \in EncTracks : Compress(t, TRUE, 0, FALSE))
         => (last'.err = "NotReady" /\ UNCHANGED <<pure, loadVars, arenaVars, ct, dt, enc>>)]_vars

\* a call threw 'WASM module not ready' while both loads were pending
C11_Witness ==
  /\ ~ready
  /\ ~enc.ready
  /\ enc.initPromise # 0
  /\ last.err = "NotReady"
  /\ ~ct.bound

\* C12: however many Decoders or Encoders are constructed, before or after
\* the load completes, each module is instantiated at most once and
\* heapInitialSize is set at most once; isReady() of every instance returns
\* the one promise of the module state all instances share.
C12_LoadOnce ==
  /\ instantiations <= 1
  /\ enc.instantiations <= 1
  /\ hist.sizeSets <= 1
  /\ hist.promises \subseteq {initPromise}
  /\ hist.encPromises \subseteq {enc.initPromise}
  /\ Cardinality(hist.promises) <= 1
  /\ Cardinality(hist.encPromises) <= 1

\* three Decoders and three Encoders exist, one of each constructed after
\* its load completed, and isReady() was called on both sides
C12_Witness ==
  /\ hist.decoders = MaxInstances
  /\ hist.encoders = MaxInstances
  /\ ready
  /\ enc.ready
  /\ hist.sizeSets = 1
  /\ hist.promises # {}
  /\ hist.encPromises # {}

\* C13: the constructor dispatches on the third 32-bit word of the buffer
\* it is given: tag 0xac10ac10 gives sampleSize 48, numTracks the low 16
\* bits of word 4 and outputBufferSize numTracks*12*4; tag 0xac11ac11 gives
\* sampleSize 4, numTracks word 4 and outputBufferSize numTracks*4; any
\* other tag throws.  Stated for buffers that hold a whole header.
C13_TagDispatch ==
  (pure.op = "CompressedTracks" /\ pure.in.len >= HeaderWords)
    => LET b == pure.in
           o == pure.out
           tag == BufferWord(b, 2)
       IN /\ tag = QvvTag
               => /\ o.ok
                  /\ o.sampleSize = 48
                  /\ o.numTracks = BufferWord(b, 4).lo
                  /\ o.outputBufferSize = o.numTracks * 12 * 4
          /\ tag = FloatTag
               => /\ o.ok
                  /\ o.sampleSize = 4
                  /\ o.numTracks = WordValue(BufferWord(b, 4))
                  /\ o.outputBufferSize = o.numTracks * 4
          /\ tag \notin {QvvTag, FloatTag} => ~o.ok

\* the arguments the constructor is said to accept
TrackArrayArgsValid(a) ==
  /\ a.numTracks.int /\ a.numTracks.v >= 0 /\ a.numTracks.v <= 16777216
  /\ a.numSamples.int /\ a.numSamples.v >= 0 /\ a.numSamples.v <= 16777216
  /\ a.sampleRate.finite /\ a.sampleRate.milli >= 0 /\ a.sampleRate.milli < 10000000
  /\ a.sampleType \in {"qvv", "float"}

\* C14: new TrackArray succeeds if and only if numTracks and
\* numSamplesPerTrack are integers in [0, 2^24], sampleRate is finite with
\* 0 <= sampleRate < 10000, and sampleType is QVV or Float.
C14_TrackArrayAccepts ==
  pure.op = "TrackArray" => (pure.out.ok <=> TrackArrayArgsValid(pure.in))

\* the slots [from, from + size)
Slots(from, size) == from .. (from + size - 1)

\* the raw-buffer slots of sample s of track t of a constructed array
SampleSlots(ta, t, s) ==
  Slots(ta.tracks[t + 1].samples[s + 1], GetNumFloatsPerSample(ta.sampleType))

\* the metadata slots of the description of track t of a constructed array
DescSlots(ta, t) ==
  Slots(ta.tracks[t + 1].metadataOffset, TrackMetadataSize(ta.sampleType))

\* the layout of one constructed array
LayoutOf(ta) ==
  LET F == IF ta.sampleType = "qvv" THEN 10 ELSE 1
      D == IF ta.sampleType = "qvv" THEN 7 ELSE 2
      T == 0 .. (ta.numTracks - 1)
      S == 0 .. (ta.numSamplesPerTrack - 1)
  IN /\ Len(ta.tracks) = ta.numTracks
     /\ \A t \in T : Len(ta.tracks[t + 1].samples) = ta.numSamplesPerTrack
     /\ \A t \in T : \A s \in S :
          SampleSlots(ta, t, s) = Slots((t * ta.numSamplesPerTrack + s) * F, F)
     /\ \A t \in T : DescSlots(ta, t) = Slots(4 + t * D, D)
     /\ \A t1, t2 \in T : \A s1, s2 \in S :
          (t1 # t2 \/ s1 # s2) =>
            SampleSlots(ta, t1, s1) \cap SampleSlots(ta, t2, s2) = {}
     /\ \A t1, t2 \in T : t1 # t2 => DescSlots(ta, t1) \cap DescSlots(ta, t2) = {}
     /\ \A t \in T : Slots(0, 4) \cap DescSlots(ta, t) = {}
     /\ UNION {SampleSlots(ta, t, s) : t \in T, s \in S} = Slots(0, ta.rawLen)
     /\ Slots(0, 4) \cup UNION {DescSlots(ta, t) : t \in T} = Slots(0, ta.metaLen)

\* C15: in every constructed TrackArray sample s of track t occupies raw
\* slots [(t*numSamplesPerTrack + s)*F, +F), F = 10 for QVV and 1 for Float,
\* and the description of track t occupies metadata slots [4 + t*D, +D),
\* D = 7 for QVV and 2 for Float; the ranges are pairwise disjoint, lie
\* inside their buffer and, with the 4 header slots, cover both buffers.
C15_Layout ==
  (pure.op = "TrackArray" /\ pure.out.ok) => LayoutOf(pure.out)

\* a QVV array of two tracks of two samples was constructed
C15_Witness ==
  /\ pure.op = "TrackArray" /\ pure.out.ok
  /\ pure.out.sampleType = "qvv"
  /\ pure.out.numTracks = 2 /\ pure.out.numSamplesPerTrack = 2

\* the call is one the function is said to answer: a valid policy,
\* numSamples >= 1, sampleRate >= 0, sampleTime >= 0 and
\* floor(sampleTime * sampleRate) <= numSamples - 1
InSampleRange(in) ==
  /\ IsRoundingPolicy(in.roundingPolicy)
  /\ in.numSamples.int /\ in.numSamples.v >= 1
  /\ in.sampleRate.finite /\ in.sampleRate.v >= 0
  /\ in.sampleTime.finite /\ ~in.sampleTime.neg
  /\ Floor(MulDouble(in.sampleTime.v, in.sampleRate.v)) <= in.numSamples.v - 1

\* C16: for numSamples >= 1, sampleRate >= 0 and sampleTime >= 0 with
\* floor(sampleTime*sampleRate) <= numSamples-1 the function returns
\* sampleIndex0 = floor(sampleTime*sampleRate), sampleIndex1 =
\* min(sampleIndex0+1, numSamples-1) and interpolationAlpha equal to the
\* fractional part for None, 0 for Floor, 1 for Ceil, and for Nearest 0 when
\* the fractional part is below 0.5 and 1 otherwise.
C16_SamplesAndAlpha ==
  (pure.op = "findSamples" /\ InSampleRange(pure.in)) =>
    LET product == MulDouble(pure.in.sampleTime.v, pure.in.sampleRate.v)
        frac == Dbl(0, product.hi, product.lo)
        policy == pure.in.roundingPolicy
    IN /\ pure.out.ok
       /\ pure.out.sampleIndex0 = product.w
       /\ pure.out.sampleIndex1 =
            (IF product.w + 1 < pure.in.numSamples.v - 1
               THEN product.w + 1 ELSE pure.in.numSamples.v - 1)
       /\ policy = "none" => pure.out.interpolationAlpha = frac
       /\ policy = "floor" => pure.out.interpolationAlpha = Dbl(0, 0, 0)
       /\ policy = "ceil" => pure.out.interpolationAlpha = Dbl(1, 0, 0)
       /\ policy = "nearest" =>
            pure.out.interpolationAlpha =
              (IF frac.hi < Half THEN Dbl(0, 0, 0) ELSE Dbl(1, 0, 0))

\* the four enumerated rounding policies
FourPolicies == {"none", "floor", "ceil", "nearest"}

\* C17: for the same (numSamples, sampleRate, sampleTime) the function
\* succeeds or fails identically under all four rounding policies, and when
\* it succeeds Floor, Ceil and Nearest return the same (sampleIndex0,
\* sampleIndex1) pair as None.
C17_SamePairUnderEveryPolicy ==
  (pure.op = "findSamples" /\ pure.in.roundingPolicy \in FourPolicies) =>
    \A p \in FourPolicies :
      LET other == FindSamples(pure.in.numSamples, pure.in.sampleRate,
                               pure.in.sampleTime, p)
      IN /\ other.ok = pure.out.ok
         /\ pure.out.ok =>
              /\ other.sampleIndex0 = pure.out.sampleIndex0
              /\ other.sampleIndex1 = pure.out.sampleIndex1

\* Ceil answered for a time strictly between two samples: its pair has two
\* different samples and its alpha differs from the one None returns
C17_Witness ==
  /\ pure.op = "findSamples" /\ pure.in.roundingPolicy = "ceil"
  /\ pure.out.ok
  /\ pure.out.sampleIndex0 < pure.out.sampleIndex1
  /\ pure.out.interpolationAlpha #
       FindSamples(pure.in.numSamples, pure.in.sampleRate,
                   pure.in.sampleTime, "none").interpolationAlpha

\* C18: the function fails with an error, returning no result, when
\* numSamples is 0 (for every sampleTime and policy), when sampleTime is
\* negative or not finite, and when the rounding policy is not one of the
\* four enumerated values.
C18_InvalidInputFails ==
  (/\ pure.op = "findSamples"
   /\ \/ pure.in.numSamples = Count(TRUE, 0)
      \/ ~pure.in.sampleTime.finite
      \/ pure.in.sampleTime.neg
      \/ pure.in.roundingPolicy \notin FourPolicies) =>
    /\ ~pure.out.ok
    /\ DOMAIN pure.out = {"ok", "err"}

\* a call with numSamples = 0 and every other argument valid failed
C18_Witness ==
  /\ pure.op = "findSamples"
  /\ pure.in.numSamples = Count(TRUE, 0)
  /\ pure.in.sampleRate.finite /\ pure.in.sampleRate.v > 0
  /\ pure.in.sampleTime.finite /\ ~pure.in.sampleTime.neg
  /\ pure.in.roundingPolicy = "nearest"
  /\ ~pure.out.ok

\* C19: TrackArray.isValid() returns true exactly when every track's
\* description is valid and every sample of every track is valid (an array
\* with zero tracks is valid), and Encoder.compress on an array for which
\* isValid() is false throws without calling any native export or changing
\* the encoder heap.
C19_ValidityGate ==
  /\ [](pure.op = "isValid" =>
          (pure.out <=>
             \A t \in 1..Len(pure.in.tracks) :
               /\ DescIsValid(pure.in.sampleType, pure.in.tracks[t].desc)
               /\ \A i \in 1..Len(pure.in.tracks[t].samples) :
                    SampleIsValid(pure.in.sampleType, pure.in.tracks[t].samples[i])))
  /\ [][(/\ pure.op = "isValid" /\ ~pure.out
          /\ \E alloc \in NativeAllocs : CompressArray(TRUE, alloc, FALSE)) =>
          /\ last'.err # ""
          /\ ~last'.native
          /\ enc' = enc]_vars

\* a loaded encoder rejected an array of two tracks whose second track has
\* an invalid description
C19_Witness ==
  /\ pure.op = "isValid" /\ ~pure.out
  /\ Len(pure.in.tracks) = 2
  /\ TrackIsValid(pure.in.sampleType, pure.in.tracks[1])
  /\ ~DescIsValid(pure.in.sampleType, pure.in.tracks[2].desc)
  /\ enc.ready /\ last.err = "Rejected"

\* the array has a track whose outputIndex is -1
HasStrippedTrack(ta) ==
  \E t \in 1..Len(ta.tracks) : ta.tracks[t].desc.outputIndex = Num("int", 0 - 1)

\* the array with the outputIndex of every stripped track set to the index
\* of the track
Unstripped(ta) ==
  [ta EXCEPT !.tracks =
     [t \in 1..Len(ta.tracks) |->
        IF ta.tracks[t].desc.outputIndex = Num("int", 0 - 1)
          THEN [ta.tracks[t] EXCEPT !.desc.outputIndex = Num("int", t - 1)]
          ELSE ta.tracks[t]]]

\* C20: a description with outputIndex = -1 and otherwise valid fields is
\* accepted by isValid(), so a TrackArray containing a stripped track passes
\* the validity gate of Encoder.compress.
C20_StrippedTrackAccepted ==
  /\ [](( /\ pure.op = "isValid"
          /\ HasStrippedTrack(pure.in)
          /\ TrackArrayIsValid(Unstripped(pure.in))) => pure.out)
  /\ [][(/\ pure.op = "isValid"
         /\ HasStrippedTrack(pure.in)
         /\ TrackArrayIsValid(Unstripped(pure.in))
         /\ enc.ready
         /\ \E alloc \in NativeAllocs : CompressArray(TRUE, alloc, FALSE)) =>
          last'.err # "Rejected"]_vars

\* the bytes of the output of a DecompressedTracks outside the slot of track ti
OtherOutputBytes(ti) ==
  {k \in 0..(ct.outputBufferSize - 1) :
     k < ti * ct.sampleSize \/ k >= (ti + 1) * ct.sampleSize}

\* C21: a decompressTrack call that returns, decoding into a
\* DecompressedTracks, writes the sampleSize bytes of the track at byte
\* offset trackIndex * sampleSize of the output and leaves every other byte
\* of the output, the break and every other allocation as they were.
C21_SingleTrackSlot ==
  [][\A c \in DtTrackCalls, growAt \in GrowPoints :
       (DecompressTrack(c.arg, c.tiInt, c.ti, c.out, c.outLen, TRUE, growAt)
        /\ last'.err = "")
         => LET out == mems'[dt'.mem]
                s == ct.sampleSize
            IN /\ \A i \in 0..(s - 1) :
                    heap'[out.off + c.ti * s + i] = DecodedByte(c.ti * s + i)
               /\ \A k \in OtherOutputBytes(c.ti) :
                    heap'[out.off + k] = heap[out.off + k]
               /\ top' = top
               /\ \A h \in Range(heapAllocations) \ {dt'.mem} :
                    /\ h \in Range(heapAllocations')
                    /\ mems'[h].off = mems[h].off
                    /\ mems'[h].len = mems[h].len
                    /\ MemBytes(heap', mems'[h]) = MemBytes(heap, mems[h])]_vars

\* the handle is not queued for free
Surviving(h) == ~mems[h].queued

\* the end of the last allocation of a list (the arena base for no allocation)
EndOfLast(allocs, ms) ==
  IF allocs = <<>> THEN heapInitialSize
  ELSE ms[allocs[Len(allocs)]].off + ms[allocs[Len(allocs)]].len

\* C22: a garbageCollect call with a non-empty free queue removes exactly
\* the queued handles from heapAllocations, keeps the others in their
\* order, empties heapFreeQueue and shrinks the break to the end of the
\* last surviving allocation; with an empty free queue it changes nothing.
C22_CollectExactlyQueued ==
  [][\A grow \in BOOLEAN :
       (GarbageCollect(grow) /\ ready)
         => IF heapFreeQueue = <<>>
              THEN UNCHANGED <<arenaVars, loadVars, ct, dt>>
              ELSE /\ heapAllocations' = SelectSeq(heapAllocations, Surviving)
                   /\ heapFreeQueue' = <<>>
                   /\ top' = EndOfLast(heapAllocations', mems')
                   /\ top' <= top]_vars

\* C23: resolving a live handle whose view is not of the current heap (the
\* heap was replaced, or garbageCollect moved the handle) gives a view of
\* the current heap at the handle's offset and adds exactly 1 to its
\* generation; resolving a handle whose view is current changes nothing;
\* and a DecompressedTracks whose cached generation equals the generation
\* of its handle returns an array over the current heap.
C23_ResolveTracksHeap ==
  /\ [][\A h \in 1..MaxMems :
          (ResolveArray(h) /\ ~mems[h].queued)
            => IF mems[h].heapRef # heapGen
                 THEN /\ mems'[h].arr = MkView(heapGen, mems[h].off, mems[h].len)
                      /\ mems'[h].generation = mems[h].generation + 1
                 ELSE /\ mems' = mems
                      /\ mems[h].arr = MkView(heapGen, mems[h].off, mems[h].len)]_vars
  /\ [][(DtArray /\ dt.mem # 0 /\ dt.generation = mems[dt.mem].generation)
          => dt'.array = MkView(heapGen, mems[dt.mem].off, mems[dt.mem].len)]_vars

\* C24: for every segment head, loading the decoder leaves heapInitialSize
\* at the smallest multiple of 16 that is not below the segment head.
C24_ArenaBaseAligned ==
  [][\A s \in AnySegmentHeads :
       Load(s) => /\ heapInitialSize' % 16 = 0
                  /\ heapInitialSize' >= s
                  /\ heapInitialSize' < s + 16]_vars

\* the number is an integer in [-1, 65535)
IsParentIndex(x) == x.kind = "int" /\ x.v >= 0 - 1 /\ x.v < IndexLimit

\* C25: TransformTrackDescription.isValid() is false whenever parentIndex
\* is not an integer in [-1, 65535), whatever the other fields hold: a
\* transform track array with such a description is never reported valid.
C25_ParentIndexChecked ==
  (pure.op = "isValid" /\ pure.in.sampleType = "qvv")
    => \A i \in 1..Len(pure.in.tracks) :
         ~IsParentIndex(pure.in.tracks[i].desc.parentIndex) => ~pure.out

\* the handles of heapAllocations that are not queued for free
LiveHandles == {h \in Range(heapAllocations) : ~mems[h].queued}

\* C26: in every reachable state no two live handles overlap and the bytes
\* of every live handle lie inside [heapInitialSize, break).
C26_LiveHandlesInsideArena ==
  \A h \in LiveHandles :
    /\ mems[h].off >= heapInitialSize
    /\ mems[h].off + mems[h].len <= top
    /\ \A g \in LiveHandles \ {h} :
         \/ mems[g].off + mems[g].len <= mems[h].off
         \/ mems[h].off + mems[h].len <= mems[g].off

\* C27: for a track array with at least one sample per track, a valid track
\* index, a finite sample time and a rounding policy, sampleTrack returns a
\* value interpolated from two samples inside [0, numSamplesPerTrack - 1];
\* it does not throw.
C27_SampleTrackTotal ==
  (/\ pure.op = "sampleTrack"
   /\ pure.in.tracks.numSamples >= 1
   /\ pure.in.trackIndex.int
   /\ pure.in.trackIndex.v >= 0
   /\ pure.in.trackIndex.v < pure.in.tracks.numTracks
   /\ pure.in.sampleTime.finite
   /\ IsRoundingPolicy(pure.in.roundingPolicy))
    => /\ pure.out.ok
       /\ pure.out.sampleIndex0 \in 0..(pure.in.tracks.numSamples - 1)
       /\ pure.out.sampleIndex1 \in 0..(pure.in.tracks.numSamples - 1)

\* C28: a bind that succeeds leaves byteLength and the bytes of array as
\* they were before it, and the compressed size that the decompress calls
\* pass to the native code is the length of the original buffer.
C28_BindKeepsReport ==
  [][\A grow \in BOOLEAN :
       (Bind(TRUE, grow) /\ ~ct.bound /\ ct'.bound)
         => /\ CtByteLength' = CtByteLength
            /\ CtArray' = CtArray
            /\ CompressedTracksSize' = CtByteLength]_vars

\* C29: for a Uint8Array that begins at a non-zero byteOffset of its
\* ArrayBuffer, the constructor reads the tag and the track count from the
\* bytes of the view: it accepts the view exactly when the third word of
\* the view is a known tag, and sampleType and numTracks are those of the
\* header the view holds.
C29_HeaderFromView ==
  (pure.op = "CompressedTracks" /\ pure.in.kind = "Uint8Array" /\ pure.in.off > 0)
    => LET b == pure.in
           o == pure.out
           tag == BufferWord(b, 2)
       IN /\ o.ok = (tag \in {QvvTag, FloatTag})
          /\ o.ok => /\ o.sampleType = (IF tag = QvvTag THEN "qvv" ELSE "float")
                     /\ o.numTracks = (IF tag = QvvTag
                                         THEN BufferWord(b, 4).lo
                                         ELSE WordValue(BufferWord(b, 4)))

\* the slots of the buffer that belong to the sample (counted from 0)
OwnSlots(a) ==
  {k \in 0..(RawLength - 1) :
     k >= a.rawDataOffset
       /\ k < a.rawDataOffset + GetNumFloatsPerSample(a.type)}

\* C30: on every sample, a setter followed by the matching getter returns
\* the value written and changes no slot of the raw buffer outside the 10
\* (QVV) or 1 (Float) slots of the sample; a getter or setter of the other
\* sample type throws and leaves the buffer as it was.
C30_SetThenGet ==
  pure.op = "sample"
    => LET a == pure.in.sample
           o == pure.out
           matching == (a.type = "qvv") = (pure.in.call \in {"setQVV", "getQVV"})
       IN /\ ~matching => (o.err # "" /\ o.rawData = a.rawData)
          /\ (matching /\ pure.in.call \in {"setQVV", "setFloat"})
               => /\ o.err = ""
                  /\ o.value = pure.in.value
                  /\ \A k \in (0..(RawLength - 1)) \ OwnSlots(a) :
                       o.rawData[k + 1] = a.rawData[k + 1]
====
